---------------------------- MODULE Spec2Model ----------------------------
(***************************************************************************)
(* A model of yacht, a test harness for Scylla.                            *)
(*                                                                         *)
(* The model follows the newest revision of every function found in the    *)
(* sources: Lane, RunSuites, Run, main and setSignalAction from            *)
(* src/unnamed/part_002 (lines 1785-2068), RunSuite and RunTest from       *)
(* src/cql.go (lines 244-367) and the servers (CQLServerURI, CQLServer,    *)
(* CQLCluster) from src/cql.go (lines 416-762).                            *)
(*                                                                         *)
(* Goroutines are modelled as interleaved processes.  Go's                 *)
(*     q = append(q, x)                                                    *)
(* is a load of the slice header followed by a store, and                  *)
(*     for _, a := range q { a.Remove() } ; q = nil                        *)
(* is one load of the header, one step per Remove, and a store.  Nothing   *)
(* in the sources serialises these accesses, so every interleaving of the  *)
(* loads and stores of different goroutines is a behaviour.                *)
(***************************************************************************)
EXTENDS Naturals, Sequences, FiniteSets, TLC

(***************************************************************************)
(* Bounds of the model.                                                    *)
(***************************************************************************)
\* the (suite, mode) iterations of RunSuites in one run of the harness
MaxRuns == 2
\* the test files of a suite
NumTests == 2

\* the stop artefacts an exit-scoped cleanup removes, when followed in detail
NumProcs == 2
\* the RunTest calls made on the test file that is followed in detail
MaxTestRuns == 3

(***************************************************************************)
(* Program constants.                                                      *)
(***************************************************************************)
\* `time.AfterFunc(3*time.Second, ...)`: the grace window, in seconds
GraceWindow == 3
\* `servers [3]*CQLServer`
ClusterSize == 3
\* 0111 (octal), the mask of FindScyllaExecutable
ExecBits == 73
\* exit status of a Go program that dies of a panic
PanicStatus == 2

VARIABLES
    force,                 \* env.force
    exe,                   \* the file at builddir/scylla: whether it exists, its mode bits
    pc,                    \* position of the main goroutine
    suiteNo, modeNo,       \* loop positions of RunSuites
    testNo,                \* loop position of RunSuite
    kind,                  \* the mode of the server being run: "uri", "single", "cluster"
    cur,                   \* the servers of the current mode (indices into servers)
    servers,               \* every server object created so far
    status,                \* the status channel of CQLCluster.Start
    removeBeforeExit,      \* lane.removeBeforeExit
    removeBeforeNextSuite, \* lane.removeBeforeNextSuite
    failed,                \* lane.failed
    laneDir,               \* the lane directory: "stale", "absent" or "fresh"
    srvDirs,               \* servers whose subdirectory and log file are on disk
    leases,                \* the addresses LeaseURI has returned, in order
    msnap, mi,             \* main: the slice a cleanup ranges over, and its index
    lpc, lsnap, li,        \* the interrupt listener: position, ranged slice, index
    rc, suite_rc,          \* RunSuites' rc and RunSuite's suite_rc
    failedAcc,             \* RunSuites' local `failed`
    retRc,                 \* the value Run returns
    exited, exitCode,      \* the harness process is gone, and its exit status
    \* history variables (not program state)
    removed,               \* every Remove() invoked: [a |-> artefact, by |-> goroutine]
    call,                  \* what the lane held when main's current cleanup call began
    infra,                 \* an infra-level error ended RunSuites
    nRunTest,              \* number of RunTest invocations so far
    outcomes,              \* the RunTest calls that returned "fail" or an error: [name, run, res]
    runNo,                 \* number of (suite, mode) iterations begun so far
    \* the removal of stop artefacts in detail (CQLServer_stop_artefact.Remove)
    sprocs,                \* the processes of the stop artefacts: state, pending signals
    si,                    \* the artefact the cleanup loop is at
    spc,                   \* position inside Remove
    timer, clock,          \* the timer of time.AfterFunc, and the time since it was armed
    sigs,                  \* history: every signal sent: [to, sig, by]
    fallback,              \* the processes whose AfterFunc function has been started
                           \* by its timer and has not run yet
    \* one test file and its runs in detail (cql_test_file.RunTest)
    tfile,                 \* the lines of the test file (test.path)
    resp,                  \* what the Connection answers to each statement
    golden,                \* the file test.result: [exists, content]
    reject,                \* the file test.reject
    tmp,                   \* the temporary output file in the lane directory
    nruns,                 \* number of RunTest calls made on the file
    last,                  \* history: the most recent RunTest call
    prevOutcome,           \* history: what the call before it returned
    changed,               \* history: the files or the server changed since the last call
    \* the loop of RunTest over the lines of a script, step by step
    script,                \* the lines of the test file, each a sequence of characters
    lineNo,                \* the number of lines input.Scan() has returned
    output,                \* what has been written to `output`
    calls,                 \* history: the argument of every c.Execute call
    rpc,                   \* position of RunTest: "idle", "scan", "err" (returned), "done"
    \* TrimAndColorizeDiff
    diff,                  \* the argument: a text, as a sequence of characters
    noColor,               \* color.NoColor: the output is not a terminal
    text,                  \* the string returned
    dpc,                   \* "idle", "call", "ret"
    \* Env.Usage and cql_test_suite.FindTests
    args,                  \* pflag.Args(): the patterns on the command line
    files,                 \* what filepath.Glob returns for the suite
    patterns,              \* env.patterns
    tests,                 \* suite.tests (the path of each cql_test_file)
    ran,                   \* history: the test files RunSuite has run, in order
    fpc,                   \* "idle", "usage", "find", "found"
    \* --- the readiness poll of CQLServer.DoStart, followed tick by tick ---
    logLines,              \* the lines the server has written to its log file
    offset,                \* server.logFile: the lines already read through it
    elapsed,               \* time.Now().Sub(start), in ticks of the poll
    ticked,                \* a tick is waiting in the channel of time.Tick
    startpc,               \* "idle", "wait", "scan", "time", "ready", "timeout", "ns"
    \* --- the barrier of CQLCluster.Start, followed statement by statement ---
    tasks,                 \* where the startOne of each node is: "run", "err", "defer",
                           \* "done"
    nerr,                  \* the nodes whose server.Start has returned an error
    wg,                    \* the counter of the WaitGroup
    chn,                   \* the status channel: the nodes whose error it holds
    bpc,                   \* CQLCluster.Start: "idle", "wait", "select", "returned"
    bres                   \* what CQLCluster.Start returns: 0 (nil), or the node whose
                           \* error it is

laneVars == <<removeBeforeExit, removeBeforeNextSuite, failed, laneDir, srvDirs, leases>>
mainVars == <<pc, suiteNo, modeNo, testNo, kind, cur, msnap, mi, rc, suite_rc,
              failedAcc, retRc>>
lsnVars == <<lpc, lsnap, li>>
histVars == <<removed, call, infra, nRunTest, outcomes, runNo>>
harnessVars == <<force, exe, servers, status, laneVars, mainVars, lsnVars, exited,
                 exitCode, histVars>>
stopVars == <<sprocs, si, spc, timer, clock, sigs, fallback>>
\* the variables the harness-level steps leave alone
testVars == <<tfile, resp, golden, reject, tmp, nruns, last, prevOutcome, changed>>
scriptVars == <<script, lineNo, output, calls, rpc>>
diffVars == <<diff, noColor, text, dpc>>
findVars == <<args, files, patterns, tests, ran, fpc>>
pollVars == <<logLines, offset, elapsed, ticked, startpc>>
barrierVars == <<tasks, nerr, wg, chn, bpc, bres>>
textVars == <<scriptVars, diffVars, findVars, pollVars, barrierVars>>
sideVars == <<stopVars, testVars, textVars>>
vars == <<harnessVars, sideVars>>


(***************************************************************************)
(* Helpers.                                                                *)
(***************************************************************************)
RECURSIVE BitOr(_, _)
\* Go's `a | b` on non-negative integers
BitOr(a, b) ==
    IF a = 0 THEN b
    ELSE IF b = 0 THEN a
    ELSE (IF a % 2 = 1 \/ b % 2 = 1 THEN 1 ELSE 0) + 2 * BitOr(a \div 2, b \div 2)

RECURSIVE BitAnd(_, _)
\* `a & b` on non-negative integers
BitAnd(a, b) ==
    IF a = 0 \/ b = 0 THEN 0
    ELSE (IF a % 2 = 1 /\ b % 2 = 1 THEN 1 ELSE 0) + 2 * BitAnd(a \div 2, b \div 2)

\* The file builddir/scylla can be: absent, or present with mode 0644 or 0755
ExeFiles ==
    {[exists |-> FALSE, mode |-> 0]} \cup {[exists |-> TRUE, mode |-> m] : m \in {420, 493}}

\* execve(2) succeeds on a file that has an execute bit
OSCanExecute(mode) == BitAnd(mode, ExecBits) # 0

Artefact(k, s) == [kind |-> k, srv |-> s]

\* A fresh server object: &CQLServerURI{...}, &CQLServer{...} or the CQLServer of a
\* cluster node (cfg.URI preset, started by a goroutine)
NewServer(k, uri, task) ==
    [kind |-> k, task |-> task, pc |-> "idle", reg |-> <<>>, err |-> "",
     proc |-> "none", state |-> "NotInstalled", uri |-> uri, underIntr |-> FALSE,
     nsTried |-> FALSE, errLog |-> 0, admin |-> <<>>]
    \* reg holds the slice header an append has loaded, between its load and its store;
    \* admin is the log of what CQLServerURI.Start has done on the server, in order

\* Lane.LeaseURI
LeaseURI == 2

(***************************************************************************)
(* The initial state: main has built the Yacht value and installed the     *)
(* signal handler; Run has not been called yet.                            *)
(***************************************************************************)
HarnessStart ==
    /\ pc = "main"
    /\ suiteNo = 0 /\ modeNo = 0 /\ testNo = 0
    /\ kind = "none" /\ cur = <<>>
    /\ servers = <<>>
    /\ status = <<>>
    /\ removeBeforeExit = <<>> /\ removeBeforeNextSuite = <<>> /\ failed = <<>>
    /\ srvDirs = {}
    /\ leases = <<>>
    /\ msnap = <<>> /\ mi = 1
    /\ lpc = "idle" /\ lsnap = <<>> /\ li = 1
    /\ rc = 0 /\ suite_rc = 0 /\ failedAcc = <<>> /\ retRc = 0
    /\ exited = FALSE /\ exitCode = 0
    /\ removed = <<>>
    /\ call = [exit |-> <<>>, suite |-> <<>>, failed |-> <<>>, dir |-> "none",
               dirs |-> {}, from |-> 0]
    /\ infra = FALSE
    /\ nRunTest = 0
    /\ outcomes = <<>>
    /\ runNo = 0

\* No stop artefact is being followed in detail
StopIdle ==
    /\ sprocs = <<>> /\ si = 1 /\ spc = "next"
    /\ timer = "none" /\ clock = 0
    /\ sigs = <<>> /\ fallback = {}

\* A file that is not there, and a file with content c
NoFile == [exists |-> FALSE, content |-> <<>>]
File(c) == [exists |-> TRUE, content |-> c]

\* The record of a RunTest call; before the first call there is none
NoRun == [outcome |-> "none", output |-> <<>>, executed |-> <<>>, resp |-> <<>>,
          goldenBefore |-> NoFile,
          rejectBefore |-> NoFile, changedBefore |-> FALSE]

\* No test file is being followed in detail
TestIdle ==
    /\ tfile = <<>> /\ resp = <<>>
    /\ golden = NoFile /\ reject = NoFile /\ tmp = NoFile
    /\ nruns = 0 /\ last = NoRun /\ prevOutcome = "none" /\ changed = FALSE

\* No script is being read, no diff trimmed, no test looked for
ScriptIdle == script = <<>> /\ lineNo = 0 /\ output = <<>> /\ calls = <<>> /\ rpc = "idle"
DiffIdle == diff = <<>> /\ noColor = TRUE /\ text = <<>> /\ dpc = "idle"
FindIdle ==
    /\ args = <<>> /\ files = <<>> /\ patterns = <<>> /\ tests = <<>> /\ ran = <<>>
    /\ fpc = "idle"
PollIdle ==
    /\ logLines = <<>> /\ offset = 0 /\ elapsed = 0 /\ ticked = FALSE
    /\ startpc = "idle"
BarrierIdle ==
    /\ tasks = <<>> /\ nerr = {} /\ wg = 0 /\ chn = <<>> /\ bpc = "idle" /\ bres = 0
TextIdle == ScriptIdle /\ DiffIdle /\ FindIdle /\ PollIdle /\ BarrierIdle

\* The harness has not been started (the state the detailed specifications of
\* single functions leave the harness in)
HarnessIdle ==
    /\ force = FALSE
    /\ exe = [exists |-> TRUE, mode |-> 493]
    /\ laneDir = "fresh"
    /\ HarnessStart
    /\ StopIdle
    /\ TestIdle

Init ==
    /\ force \in BOOLEAN
    /\ exe \in ExeFiles
    /\ laneDir \in {"absent", "stale"}
    /\ HarnessStart
    /\ StopIdle
    /\ TestIdle
    /\ TextIdle

(***************************************************************************)
(* Artefact.Remove, by kind.                                               *)
(***************************************************************************)
\* CQLServer_stop_artefact.Remove reads a.cmd.Process.Pid first; cmd.Process is nil
\* until cmd.Start() has succeeded
Panics(a) == a.kind = "stop" /\ servers[a.srv].proc = "none"

\* The effect of a Remove() that does not panic
RemoveEffect(a) ==
    CASE a.kind = "stop" ->
            \* Process.Kill(), then Process.Wait()
            /\ servers' = [servers EXCEPT ![a.srv].proc = "dead"]
            /\ UNCHANGED srvDirs
      [] a.kind = "uninstall" ->
            \* os.RemoveAll(cfg.Dir); os.Remove(logFileName)
            /\ srvDirs' = srvDirs \ {a.srv}
            /\ UNCHANGED servers
      [] a.kind = "release" ->
            \* Lane.ReleaseURI has an empty body
            UNCHANGED <<servers, srvDirs>>
      [] a.kind = "dropks" ->
            \* DROP KEYSPACE IF EXISTS yacht; the result is ignored
            UNCHANGED <<servers, srvDirs>>

\* One artefact.Remove() called by goroutine `who`
Remove(a, who) ==
    /\ removed' = Append(removed, [a |-> a, by |-> who])
    /\ IF Panics(a)
       THEN /\ exited' = TRUE
            /\ exitCode' = PanicStatus
            /\ UNCHANGED <<servers, srvDirs>>
       ELSE /\ RemoveEffect(a)
            /\ UNCHANGED <<exited, exitCode>>


(***************************************************************************)
(* The steps of a server's Start.  Server s is an index into servers; its  *)
(* pc says where its Start is.  A server of mode "uri" or "single" is      *)
(* started by main itself (main waits at "start_wait"); the nodes of a     *)
(* cluster are started by one goroutine each.                              *)
(***************************************************************************)
Running(s) == ~exited /\ s \in DOMAIN servers

\* server.logFileName: path.Join(lane.Dir(), server.cfg.URI+".log"), named here by the
\* address it is derived from (0: no path)
LogFileName(s) == servers[s].uri

\* The path an error of Start names: only the startup-timeout error of DoStart has
\* one, "... check server log at %s"
ErrorLogPath(s, e) == IF e = "timeout" THEN LogFileName(s) ELSE 0

\* Fault variant of StatusCapacity: the channel has room for one error
StatusCapacityOne == ClusterSize - 2

\* The capacity of the status channel: `make(chan error, len(cluster.servers))`
StatusCapacity == ClusterSize

\* startOne can go past `status <- err`: nothing is sent, or the channel has room
\* (a send on a full channel blocks until a receive, and CQLCluster.Start
\* receives only after wg.Wait())
CanSend(s, e) == (servers[s].task = "go" /\ e # "") => Len(status) < StatusCapacity

\* Start returns e ("" is nil); startOne sends a non-nil error to the status
\* channel
Return(s, e) ==
    /\ CanSend(s, e)
    /\ servers' = [servers EXCEPT ![s].pc = "done", ![s].err = e, ![s].reg = <<>>,
                                  ![s].errLog = ErrorLogPath(s, e)]
    /\ status' = IF servers[s].task = "go" /\ e # "" THEN Append(status, s) ELSE status

\* The mode test of FindScyllaExecutable: `st.Mode()|0111 == 0`
NotExecutable(mode) == BitOr(mode, ExecBits) = 0

FindScyllaExecutable(s) ==
    /\ Running(s) /\ servers[s].pc = "find"
    /\ IF ~exe.exists
       THEN Return(s, "stat")
       ELSE IF NotExecutable(exe.mode)
            THEN Return(s, "notexec")
            ELSE servers' = [servers EXCEPT ![s].pc = "install"] /\ UNCHANGED status
    /\ UNCHANGED <<sideVars, force, exe, laneVars, mainVars, lsnVars, exited, exitCode, histVars>>

\* Install up to the load of `lane.AddSuiteArtefact(&CQLServer_uninstall_artefact{})`.
\* Only a server that main starts itself has an empty cfg.URI (CQLCluster.Start
\* presets it), and no other goroutine reads or writes removeBeforeNextSuite while
\* main is here, so the lease and its append are taken in the same step.
InstallLease(s) ==
    /\ Running(s) /\ servers[s].pc = "install"
    /\ IF servers[s].uri = 0
       THEN /\ leases' = Append(leases, LeaseURI)
            /\ removeBeforeNextSuite' =
                   Append(removeBeforeNextSuite, Artefact("release", s))
            /\ servers' = [servers EXCEPT ![s].uri = LeaseURI, ![s].pc = "inst_un",
                                          ![s].reg = removeBeforeNextSuite']
       ELSE /\ servers' = [servers EXCEPT ![s].pc = "inst_un",
                                          ![s].reg = removeBeforeNextSuite]
            /\ UNCHANGED <<leases, removeBeforeNextSuite>>
    /\ UNCHANGED <<sideVars, force, exe, status, removeBeforeExit, failed, laneDir, srvDirs,
                   mainVars, lsnVars, exited, exitCode, histVars>>

\* The store of that append, then the rest of Install: MkdirAll, the log file, the
\* configuration file, exec.Command
InstallFiles(s) ==
    /\ Running(s) /\ servers[s].pc = "inst_un"
    /\ removeBeforeNextSuite' = Append(servers[s].reg, Artefact("uninstall", s))
    /\ \E ok \in BOOLEAN :
          IF ok
          THEN /\ srvDirs' = srvDirs \cup {s}
               /\ servers' = [servers EXCEPT ![s].pc = "ds_load", ![s].state = "Installed",
                                             ![s].reg = <<>>]
               /\ UNCHANGED status
          ELSE /\ Return(s, "mkdir")
               /\ UNCHANGED srvDirs
    /\ UNCHANGED <<sideVars, force, exe, removeBeforeExit, failed, laneDir, leases,
                   mainVars, lsnVars, exited, exitCode, histVars>>

\* DoStart: the load of `lane.AddExitArtefact(&CQLServer_stop_artefact{cmd})`
DoStartLoad(s) ==
    /\ Running(s) /\ servers[s].pc = "ds_load"
    /\ servers' = [servers EXCEPT ![s].pc = "ds_store", ![s].reg = removeBeforeExit]
    /\ UNCHANGED <<sideVars, force, exe, status, laneVars, mainVars, lsnVars, exited, exitCode,
                   histVars>>

\* Fault variant of DoStartStore: the stop artefact is stored in the suite-scoped
\* queue (AddSuiteArtefact in place of AddExitArtefact)
DoStartStoreSuiteScoped(s) ==
    /\ Running(s) /\ servers[s].pc = "ds_store"
    /\ removeBeforeNextSuite' = Append(removeBeforeNextSuite, Artefact("stop", s))
    /\ servers' = [servers EXCEPT ![s].pc = "spawn", ![s].reg = <<>>]
    /\ UNCHANGED <<sideVars, force, exe, status, removeBeforeExit, failed, laneDir, srvDirs,
                   leases, mainVars, lsnVars, exited, exitCode, histVars>>

\* DoStart: the store of that append
DoStartStore(s) ==
    /\ Running(s) /\ servers[s].pc = "ds_store"
    /\ removeBeforeExit' = Append(servers[s].reg, Artefact("stop", s))
    /\ servers' = [servers EXCEPT ![s].pc = "spawn", ![s].reg = <<>>]
    /\ UNCHANGED <<sideVars, force, exe, status, removeBeforeNextSuite, failed, laneDir, srvDirs,
                   leases, mainVars, lsnVars, exited, exitCode, histVars>>

\* DoStart: server.cmd.Start()
Spawn(s) ==
    /\ Running(s) /\ servers[s].pc = "spawn"
    /\ IF OSCanExecute(exe.mode)
       THEN /\ servers' = [servers EXCEPT ![s].pc = "poll", ![s].proc = "alive",
                                          ![s].state = "Started",
                                          ![s].underIntr = (lpc # "idle")]
            /\ UNCHANGED status
       ELSE Return(s, "spawn")
    /\ UNCHANGED <<sideVars, force, exe, laneVars, mainVars, lsnVars, exited, exitCode, histVars>>

\* DoStart: the poll of the log finds the readiness marker.  Start goes on to
\* server.CQLServerURI.Start
PollReady(s) ==
    /\ Running(s) /\ servers[s].pc = "poll"
    /\ servers[s].proc = "alive"
    /\ servers' = [servers EXCEPT ![s].pc = "uri_start", ![s].state = "Ready"]
    /\ UNCHANGED <<sideVars, force, exe, status, laneVars, mainVars, lsnVars, exited, exitCode,
                   histVars>>

\* Fault variant of PollTimeout: Start ignores the error of DoStart and goes on to
\* server.CQLServerURI.Start
PollTimeoutIgnored(s) ==
    /\ Running(s) /\ servers[s].pc = "poll"
    /\ ~servers[s].underIntr
    /\ servers' = [servers EXCEPT ![s].pc = "uri_start"]
    /\ UNCHANGED <<sideVars, force, exe, status, laneVars, mainVars, lsnVars, exited, exitCode,
                   histVars>>

\* DoStart: START_TIMEOUT (300 s) has passed without the marker.  An interrupt
\* handler that was already running when the process was spawned is over by then
\* (it kills, waits and exits): such a server is never seen to time out.
PollTimeout(s) ==
    /\ Running(s) /\ servers[s].pc = "poll"
    /\ ~servers[s].underIntr
    /\ Return(s, "timeout")
    /\ UNCHANGED <<sideVars, force, exe, laneVars, mainVars, lsnVars, exited, exitCode, histVars>>

\* What CQLServerURI.Start does on the server, in order, when its run ends as res:
\* CreateSession; artefact.Remove(), which is DROP KEYSPACE IF EXISTS and whose
\* result is ignored; CREATE KEYSPACE IF NOT EXISTS
AdminLog(res) ==
    CASE res = "session" -> <<"session_failed">>
      [] res = "create"  -> <<"session", "drop", "create_failed">>
      [] res = "ok"      -> <<"session", "drop", "create">>

\* Fault variant of URIRegisters: the artefact is registered once the session is
\* open, whatever the create returns
URIRegistersBeforeCreate(res) == res # "session"

\* CQLServerURI.Start reaches `lane.AddSuiteArtefact(&artefact)`: neither
\* CreateSession nor the create has returned an error
URIRegisters(res) == res = "ok"

\* CQLServerURI.Start up to the load of `lane.AddSuiteArtefact(&artefact)`:
\* CreateSession, DROP KEYSPACE IF EXISTS, CREATE KEYSPACE IF NOT EXISTS
URIStart(s) ==
    /\ Running(s) /\ servers[s].pc = "uri_start"
    /\ \E res \in {"ok", "session", "create"} :
          /\ res = "ok" => servers[s].kind = "uri" \/ servers[s].proc = "alive"
          /\ IF URIRegisters(res)
             THEN /\ servers' = [servers EXCEPT ![s].pc = "uri_store", ![s].nsTried = TRUE,
                                                ![s].admin = AdminLog(res),
                                                ![s].reg = removeBeforeNextSuite]
                  /\ UNCHANGED status
             ELSE /\ LET next == [servers EXCEPT ![s].nsTried = TRUE,
                                                 ![s].admin = AdminLog(res)] IN
                     servers' = [next EXCEPT ![s].pc = "done", ![s].err = res]
                  /\ CanSend(s, res)
                  /\ status' = IF servers[s].task = "go" THEN Append(status, s) ELSE status
    /\ UNCHANGED <<sideVars, force, exe, laneVars, mainVars, lsnVars, exited, exitCode, histVars>>

\* CQLServerURI.Start: the store of that append; Start returns nil
URIStore(s) ==
    /\ Running(s) /\ servers[s].pc = "uri_store"
    /\ removeBeforeNextSuite' = Append(servers[s].reg, Artefact("dropks", s))
    /\ Return(s, "")
    /\ UNCHANGED <<sideVars, force, exe, removeBeforeExit, failed, laneDir, srvDirs, leases,
                   mainVars, lsnVars, exited, exitCode, histVars>>


\* Any step of the Start of server s
StartStep(s) ==
    \/ FindScyllaExecutable(s)
    \/ InstallLease(s)
    \/ InstallFiles(s)
    \/ DoStartLoad(s)
    \/ DoStartStore(s)
    \/ Spawn(s)
    \/ PollReady(s)
    \/ PollTimeout(s)
    \/ URIStart(s)
    \/ URIStore(s)

(***************************************************************************)
(* The main goroutine: main, Yacht.Run, Yacht.RunSuites, RunSuite and the  *)
(* two cleanups of the lane.                                               *)
(***************************************************************************)
\* Fault variant of RangeAt: the loop walks the queue from its last element
RangeAtBackwards(q, i) == q[Len(q) + 1 - i]

\* The element a `for _, artefact := range q` loop handles in its i-th iteration
RangeAt(q, i) == q[i]

\* What the lane holds when a cleanup call of main begins (history)
CallBegin ==
    [exit |-> removeBeforeExit, suite |-> removeBeforeNextSuite, failed |-> failed,
     dir |-> laneDir, dirs |-> srvDirs, from |-> Len(removed)]

\* Fault variant of Run: lane.Init keeps a lane directory that is there
RunReusesLane ==
    /\ ~exited /\ pc = "main"
    /\ \E ok \in BOOLEAN :
          IF ok
          THEN /\ laneDir' = IF laneDir = "absent" THEN "fresh" ELSE laneDir
               /\ pc' = "suites" /\ UNCHANGED <<exited, exitCode>>
          ELSE exited' = TRUE /\ exitCode' = 1 /\ UNCHANGED <<laneDir, pc>>
    /\ UNCHANGED <<sideVars, force, exe, servers, status, removeBeforeExit, removeBeforeNextSuite,
                   failed, srvDirs, leases, suiteNo, modeNo, testNo, kind, cur, msnap, mi,
                   rc, suite_rc, failedAcc, retRc, lsnVars, histVars>>

\* Yacht.Run: lane.Init (which leaves the harness on a file system error) and
\* findSuites
Run ==
    /\ ~exited /\ pc = "main"
    /\ \E ok \in BOOLEAN :
          IF ok
          THEN laneDir' = "fresh" /\ pc' = "suites" /\ UNCHANGED <<exited, exitCode>>
          ELSE exited' = TRUE /\ exitCode' = 1 /\ UNCHANGED <<laneDir, pc>>
    /\ UNCHANGED <<sideVars, force, exe, servers, status, removeBeforeExit, removeBeforeNextSuite,
                   failed, srvDirs, leases, suiteNo, modeNo, testNo, kind, cur, msnap, mi,
                   rc, suite_rc, failedAcc, retRc, lsnVars, histVars>>

\* RunSuites: `for _, suite := range yacht.suites` takes the next suite
NextSuite ==
    /\ ~exited /\ pc = "suites"
    /\ suiteNo' = suiteNo + 1
    /\ modeNo' = 0
    /\ pc' = "modes"
    /\ UNCHANGED <<sideVars, force, exe, servers, status, laneVars, testNo, kind, cur, msnap, mi,
                   rc, suite_rc, failedAcc, retRc, lsnVars, exited, exitCode, histVars>>

\* RunSuites: yacht.suites is exhausted, `return failed, rc`
RunSuitesEnd ==
    /\ ~exited /\ pc = "suites"
    /\ retRc' = rc
    /\ pc' = "ret"
    /\ UNCHANGED <<sideVars, force, exe, servers, status, laneVars, suiteNo, modeNo, testNo, kind,
                   cur, msnap, mi, rc, suite_rc, failedAcc, lsnVars, exited, exitCode,
                   histVars>>

\* RunSuites: `for _, server := range suite.Servers()` takes the next server, of
\* mode k, and CleanupBeforeNextSuite begins: `range lane.removeBeforeExit`.
\* The server objects of modes "uri" and "single" are made by findSuites.
NextMode(k) ==
    /\ ~exited /\ pc = "modes"
    /\ modeNo' = modeNo + 1
    /\ runNo' = runNo + 1
    /\ kind' = k
    /\ IF k = "cluster"
       THEN cur' = <<>> /\ UNCHANGED servers
       ELSE /\ servers' = Append(servers, NewServer(k, 0, "main"))
            /\ cur' = <<Len(servers) + 1>>
    /\ msnap' = removeBeforeExit
    /\ mi' = 1
    /\ call' = CallBegin
    /\ pc' = "cns_exit"
    /\ UNCHANGED <<sideVars, force, exe, status, laneVars, suiteNo, testNo, rc, suite_rc, failedAcc,
                   retRc, lsnVars, exited, exitCode, removed, infra, nRunTest, outcomes>>

\* RunSuites: suite.Servers() is exhausted (a suite has at least one server)
ModesEnd ==
    /\ ~exited /\ pc = "modes"
    /\ modeNo > 0
    /\ pc' = "suites"
    /\ UNCHANGED <<sideVars, force, exe, servers, status, laneVars, suiteNo, modeNo, testNo, kind,
                   cur, msnap, mi, rc, suite_rc, failedAcc, retRc, lsnVars, exited,
                   exitCode, histVars>>

\* CleanupBeforeNextSuite: one iteration of the loop over removeBeforeExit
CNSRemoveExit ==
    /\ ~exited /\ pc = "cns_exit"
    /\ mi <= Len(msnap)
    /\ Remove(RangeAt(msnap, mi), "main")
    /\ mi' = mi + 1
    /\ UNCHANGED <<sideVars, force, exe, status, removeBeforeExit, removeBeforeNextSuite, failed,
                   laneDir, leases, pc, suiteNo, modeNo, testNo, kind, cur, msnap, rc,
                   suite_rc, failedAcc, retRc, lsnVars, call, infra, nRunTest, outcomes, runNo>>

\* CleanupBeforeNextSuite: `lane.removeBeforeExit = nil`, then
\* `range lane.removeBeforeNextSuite` (which only main touches at this point)
CNSExitDone ==
    /\ ~exited /\ pc = "cns_exit"
    /\ mi > Len(msnap)
    /\ removeBeforeExit' = <<>>
    /\ msnap' = removeBeforeNextSuite
    /\ mi' = 1
    /\ pc' = "cns_suite"
    /\ UNCHANGED <<sideVars, force, exe, servers, status, removeBeforeNextSuite, failed, laneDir,
                   srvDirs, leases, suiteNo, modeNo, testNo, kind, cur, rc, suite_rc,
                   failedAcc, retRc, lsnVars, exited, exitCode, histVars>>

\* CleanupBeforeNextSuite: one iteration of the loop over removeBeforeNextSuite
CNSRemoveSuite ==
    /\ ~exited /\ pc = "cns_suite"
    /\ mi <= Len(msnap)
    /\ Remove(RangeAt(msnap, mi), "main")
    /\ mi' = mi + 1
    /\ UNCHANGED <<sideVars, force, exe, status, removeBeforeExit, removeBeforeNextSuite, failed,
                   laneDir, leases, pc, suiteNo, modeNo, testNo, kind, cur, msnap, rc,
                   suite_rc, failedAcc, retRc, lsnVars, call, infra, nRunTest, outcomes, runNo>>

\* Fault variant of CNSSuiteDone: lane.failed is not reset
CNSSuiteDoneKeepsFailed ==
    /\ ~exited /\ pc = "cns_suite"
    /\ mi > Len(msnap)
    /\ removeBeforeNextSuite' = <<>>
    /\ pc' = "prepare"
    /\ UNCHANGED <<sideVars, force, exe, servers, status, removeBeforeExit, failed, laneDir, srvDirs,
                   leases, suiteNo, modeNo, testNo, kind, cur, msnap, mi, rc, suite_rc,
                   failedAcc, retRc, lsnVars, exited, exitCode, histVars>>

\* CleanupBeforeNextSuite: `lane.removeBeforeNextSuite = nil; lane.failed = nil`,
\* and the call returns
CNSSuiteDone ==
    /\ ~exited /\ pc = "cns_suite"
    /\ mi > Len(msnap)
    /\ removeBeforeNextSuite' = <<>>
    /\ failed' = <<>>
    /\ pc' = "prepare"
    /\ UNCHANGED <<sideVars, force, exe, servers, status, removeBeforeExit, laneDir, srvDirs, leases,
                   suiteNo, modeNo, testNo, kind, cur, msnap, mi, rc, suite_rc, failedAcc,
                   retRc, lsnVars, exited, exitCode, histVars>>

\* suite.PrepareLane: server.Start(lane) of a "uri" or a "single" server
Prepare ==
    /\ ~exited /\ pc = "prepare"
    /\ kind \in {"uri", "single"}
    /\ servers' = [servers EXCEPT
                       ![cur[1]].pc = IF kind = "uri" THEN "uri_start" ELSE "find"]
    /\ pc' = "start_wait"
    /\ UNCHANGED <<sideVars, force, exe, status, laneVars, suiteNo, modeNo, testNo, kind, cur, msnap,
                   mi, rc, suite_rc, failedAcc, retRc, lsnVars, exited, exitCode, histVars>>

\* The nodes CQLCluster.Start creates: indices of the new server objects
NodeIds == [i \in 1..ClusterSize |-> Len(servers) + i]

RECURSIVE AppendAll(_, _)
AppendAll(q, xs) == IF xs = <<>> THEN q ELSE AppendAll(Append(q, Head(xs)), Tail(xs))

\* suite.PrepareLane: CQLCluster.Start up to `wg.Wait()`: one LeaseURI and one
\* AddSuiteArtefact per node (no other goroutine touches the lane's suite queue
\* yet), then one `go startOne(&server)` per node
ClusterStart ==
    /\ ~exited /\ pc = "prepare"
    /\ kind = "cluster"
    /\ leases' = AppendAll(leases, [i \in 1..ClusterSize |-> LeaseURI])
    /\ removeBeforeNextSuite' =
           AppendAll(removeBeforeNextSuite,
                     [i \in 1..ClusterSize |-> Artefact("release", NodeIds[i])])
    /\ servers' = AppendAll(servers,
                     [i \in 1..ClusterSize |->
                         [NewServer("node", LeaseURI, "go") EXCEPT !.pc = "find"]])
    /\ cur' = NodeIds
    /\ status' = <<>>
    /\ pc' = "start_wait"
    /\ UNCHANGED <<sideVars, force, exe, removeBeforeExit, failed, laneDir, srvDirs, suiteNo, modeNo,
                   testNo, kind, msnap, mi, rc, suite_rc, failedAcc, retRc, lsnVars,
                   exited, exitCode, histVars>>

\* Fault variant of StartFinished: CQLCluster.Start goes on as soon as one node's
\* start has finished
StartFinishedAny == \E i \in DOMAIN cur : servers[cur[i]].pc = "done"

\* server.Start(lane) is over: the call of main has returned, or, in
\* CQLCluster.Start, `wg.Wait()` is (every startOne has run its `defer wg.Done()`)
StartFinished == \A i \in DOMAIN cur : servers[cur[i]].pc = "done"

\* Fault variant of StartResult: CQLCluster.Start never reads the status channel
StartResultDropsError ==
    IF kind = "cluster" THEN "" ELSE servers[cur[1]].err

\* What server.Start(lane) returns to PrepareLane: the error of the one server, or
\* for a cluster, after wg.Wait(), `select { case err := <-status: ...; default: nil }`
StartResult ==
    IF kind = "cluster"
    THEN IF status # <<>> THEN servers[Head(status)].err ELSE ""
    ELSE servers[cur[1]].err

\* What suite.PrepareLane returns to RunSuites.  TestSuite declares
\* `PrepareLane(*Lane, Server) error` and RunSuites tests its result; the body of
\* this revision is not among the sources (src/cql.go:244 is the previous
\* revision, without a result), so the result is taken to be Start's.
PrepareLane(startErr) == startErr

\* Fault variant of StartReturn: in force mode a failed PrepareLane only skips the
\* mode
StartReturnForceGoesOn ==
    /\ ~exited /\ pc = "start_wait"
    /\ \A i \in DOMAIN cur : servers[cur[i]].pc = "done"
    /\ IF PrepareLane(StartResult) # ""
       THEN /\ infra' = TRUE
            /\ retRc' = 1
            /\ pc' = IF force THEN "modes" ELSE "ret"
       ELSE /\ pc' = "connect"
            /\ UNCHANGED <<infra, retRc>>
    /\ UNCHANGED <<sideVars, force, exe, servers, status, laneVars, suiteNo, modeNo, testNo, kind,
                   cur, msnap, mi, rc, suite_rc, failedAcc, lsnVars, exited, exitCode,
                   removed, call, nRunTest, outcomes, runNo>>

\* RunSuites: `if err := suite.PrepareLane(&yacht.lane, server); err != nil`
StartReturn ==
    /\ ~exited /\ pc = "start_wait"
    /\ StartFinished
    /\ IF PrepareLane(StartResult) # ""
       THEN /\ infra' = TRUE
            /\ retRc' = 1
            /\ pc' = "ret"
       ELSE /\ pc' = "connect"
            /\ UNCHANGED <<infra, retRc>>
    /\ UNCHANGED <<sideVars, force, exe, servers, status, laneVars, suiteNo, modeNo, testNo, kind,
                   cur, msnap, mi, rc, suite_rc, failedAcc, lsnVars, exited, exitCode,
                   removed, call, nRunTest, outcomes, runNo>>

\* RunSuite: `c, err := server.Connect()` (of a cluster: servers[0].Connect()).
\* A session opens only on a server that is there.
Connect ==
    /\ ~exited /\ pc = "connect"
    /\ \E ok \in BOOLEAN :
          IF ok
          THEN /\ servers[cur[1]].kind = "uri" \/ servers[cur[1]].proc = "alive"
               /\ servers' = [servers EXCEPT ![cur[1]].state = "Connected"]
               /\ testNo' = 0
               /\ suite_rc' = 0
               /\ pc' = "tests"
               /\ UNCHANGED <<infra, retRc>>
          ELSE /\ infra' = TRUE
               /\ retRc' = 1
               /\ pc' = "ret"
               /\ UNCHANGED <<servers, testNo, suite_rc>>
    /\ UNCHANGED <<sideVars, force, exe, status, laneVars, suiteNo, modeNo, kind, cur, msnap, mi, rc,
                   failedAcc, lsnVars, exited, exitCode, removed, call, nRunTest, outcomes, runNo>>

\* The full_name of the test RunSuite is at: suite.name/test.name
FullName(suite, test) == <<suite, test>>

\* Fault variant of RunTest: a failed test ends the suite with force as well
RunTestForceStops(res) ==
    /\ ~exited /\ pc = "tests"
    /\ testNo < NumTests
    /\ testNo' = testNo + 1
    /\ nRunTest' = nRunTest + 1
    /\ outcomes' = IF res \in {"fail", "err"}
                   THEN Append(outcomes, [name |-> FullName(suiteNo, testNo'),
                                          run |-> runNo, res |-> res])
                   ELSE outcomes
    /\ IF res = "err"
       THEN /\ retRc' = 1
            /\ pc' = "ret"
            /\ UNCHANGED <<suite_rc, failed>>
       ELSE IF res = "fail"
            THEN /\ suite_rc' = 1
                 /\ failed' = Append(failed, FullName(suiteNo, testNo'))
                 /\ pc' = "suite_ret"
                 /\ UNCHANGED retRc
            ELSE /\ pc' = IF testNo' = NumTests THEN "suite_ret" ELSE "tests"
                 /\ UNCHANGED <<suite_rc, failed, retRc>>
    /\ UNCHANGED <<sideVars, force, exe, servers, status, removeBeforeExit, removeBeforeNextSuite,
                   laneDir, srvDirs, leases, suiteNo, modeNo, kind, cur, msnap, mi, rc,
                   failedAcc, lsnVars, exited, exitCode, removed, call, infra, runNo>>

\* RunSuite: one iteration of `for _, test := range suite.tests`, with the result of
\* test.RunTest: "pass", "new", "fail", or an error ("err")
RunTest(res) ==
    /\ ~exited /\ pc = "tests"
    /\ testNo < NumTests
    /\ testNo' = testNo + 1
    /\ nRunTest' = nRunTest + 1
    /\ outcomes' = IF res \in {"fail", "err"}
                   THEN Append(outcomes, [name |-> FullName(suiteNo, testNo'),
                                          run |-> runNo, res |-> res])
                   ELSE outcomes
    /\ IF res = "err"
       THEN /\ retRc' = 1
            /\ pc' = "ret"
            /\ UNCHANGED <<suite_rc, failed>>
       ELSE IF res = "fail"
            THEN /\ suite_rc' = 1
                 /\ failed' = Append(failed, FullName(suiteNo, testNo'))
                 /\ pc' = IF ~force \/ testNo' = NumTests THEN "suite_ret" ELSE "tests"
                 /\ UNCHANGED retRc
            ELSE /\ pc' = IF testNo' = NumTests THEN "suite_ret" ELSE "tests"
                 /\ UNCHANGED <<suite_rc, failed, retRc>>
    /\ UNCHANGED <<sideVars, force, exe, servers, status, removeBeforeExit, removeBeforeNextSuite,
                   laneDir, srvDirs, leases, suiteNo, modeNo, kind, cur, msnap, mi, rc,
                   failedAcc, lsnVars, exited, exitCode, removed, call, infra, runNo>>

\* RunSuites: RunSuite has returned (suite_rc, nil)
SuiteReturn ==
    /\ ~exited /\ pc = "suite_ret"
    /\ rc' = IF rc # 0 \/ suite_rc # 0 THEN 1 ELSE 0
    /\ failedAcc' = failedAcc \o failed
    /\ pc' = IF rc' # 0 /\ ~force THEN "suites" ELSE "modes"
    /\ UNCHANGED <<sideVars, force, exe, servers, status, laneVars, suiteNo, modeNo, testNo, kind,
                   cur, msnap, mi, suite_rc, retRc, lsnVars, exited, exitCode, histVars>>

\* main: Run has returned; `yacht.lane.CleanupBeforeExit()` begins:
\* `range lane.removeBeforeExit`
CBEBegin ==
    /\ ~exited /\ pc = "ret"
    /\ msnap' = removeBeforeExit
    /\ mi' = 1
    /\ call' = CallBegin
    /\ pc' = "cbe"
    /\ UNCHANGED <<sideVars, force, exe, servers, status, laneVars, suiteNo, modeNo, testNo, kind,
                   cur, rc, suite_rc, failedAcc, retRc, lsnVars, exited, exitCode, removed,
                   infra, nRunTest, outcomes, runNo>>

\* CleanupBeforeExit in main: one iteration of the loop
CBERemove ==
    /\ ~exited /\ pc = "cbe"
    /\ mi <= Len(msnap)
    /\ Remove(RangeAt(msnap, mi), "main")
    /\ mi' = mi + 1
    /\ UNCHANGED <<sideVars, force, exe, status, removeBeforeExit, removeBeforeNextSuite, failed,
                   laneDir, leases, pc, suiteNo, modeNo, testNo, kind, cur, msnap, rc,
                   suite_rc, failedAcc, retRc, lsnVars, call, infra, nRunTest, outcomes, runNo>>

\* Fault variant of CBEDone: the exit cleanup resets lane.failed as well, as the
\* cleanup between suites does
CBEDoneResetsFailed ==
    /\ ~exited /\ pc = "cbe"
    /\ mi > Len(msnap)
    /\ removeBeforeExit' = <<>>
    /\ failed' = <<>>
    /\ pc' = "exit"
    /\ UNCHANGED <<sideVars, force, exe, servers, status, removeBeforeNextSuite, laneDir,
                   srvDirs, leases, suiteNo, modeNo, testNo, kind, cur, msnap, mi, rc,
                   suite_rc, failedAcc, retRc, lsnVars, exited, exitCode, histVars>>

\* CleanupBeforeExit in main: `lane.removeBeforeExit = nil`, and the call returns
CBEDone ==
    /\ ~exited /\ pc = "cbe"
    /\ mi > Len(msnap)
    /\ removeBeforeExit' = <<>>
    /\ pc' = "exit"
    /\ UNCHANGED <<sideVars, force, exe, servers, status, removeBeforeNextSuite, failed, laneDir,
                   srvDirs, leases, suiteNo, modeNo, testNo, kind, cur, msnap, mi, rc,
                   suite_rc, failedAcc, retRc, lsnVars, exited, exitCode, histVars>>

\* main: `os.Exit(rc)`
Exit ==
    /\ ~exited /\ pc = "exit"
    /\ exited' = TRUE
    /\ exitCode' = retRc
    /\ UNCHANGED <<sideVars, force, exe, servers, status, laneVars, mainVars, lsnVars, histVars>>

(***************************************************************************)
(* The goroutine of setSignalAction.                                       *)
(***************************************************************************)
\* os.Interrupt arrives: `for sig := range c` runs CleanupBeforeExit, which begins
\* with `range lane.removeBeforeExit`
Interrupt ==
    /\ ~exited /\ lpc = "idle"
    /\ lsnap' = removeBeforeExit
    /\ li' = 1
    /\ lpc' = "cbe"
    /\ UNCHANGED <<sideVars, force, exe, servers, status, laneVars, mainVars, exited, exitCode,
                   histVars>>

\* CleanupBeforeExit in the listener: one iteration of the loop
ListenerRemove ==
    /\ ~exited /\ lpc = "cbe"
    /\ li <= Len(lsnap)
    /\ Remove(RangeAt(lsnap, li), "listener")
    /\ li' = li + 1
    /\ UNCHANGED <<sideVars, force, exe, status, removeBeforeExit, removeBeforeNextSuite, failed,
                   laneDir, leases, mainVars, lpc, lsnap, call, infra, nRunTest, outcomes, runNo>>

\* CleanupBeforeExit in the listener: `lane.removeBeforeExit = nil`
ListenerDone ==
    /\ ~exited /\ lpc = "cbe"
    /\ li > Len(lsnap)
    /\ removeBeforeExit' = <<>>
    /\ lpc' = "exit"
    /\ UNCHANGED <<sideVars, force, exe, servers, status, removeBeforeNextSuite, failed, laneDir,
                   srvDirs, leases, mainVars, lsnap, li, exited, exitCode, histVars>>

\* The listener: `os.Exit(1)`
ListenerExit ==
    /\ ~exited /\ lpc = "exit"
    /\ exited' = TRUE
    /\ exitCode' = 1
    /\ UNCHANGED <<sideVars, force, exe, servers, status, laneVars, mainVars, lsnVars, histVars>>

(***************************************************************************)
(* Specifications.                                                         *)
(***************************************************************************)
\* The steps of the interrupt listener
ListenerStep ==
    \/ Interrupt
    \/ ListenerRemove
    \/ ListenerDone
    \/ ListenerExit

\* The steps of main and of the servers' Start that do not depend on the modes of
\* the suites
CommonStep ==
    \/ Run
    \/ RunSuitesEnd
    \/ ModesEnd
    \/ CNSExitDone
    \/ CNSSuiteDone
    \/ StartReturn
    \/ Connect
    \/ \E res \in {"pass", "new", "fail", "err"} : RunTest(res)
    \/ SuiteReturn
    \/ CBEBegin
    \/ CBERemove
    \/ CBEDone
    \/ Exit
    \/ \E s \in DOMAIN servers : FindScyllaExecutable(s)
    \/ \E s \in DOMAIN servers : InstallLease(s)
    \/ \E s \in DOMAIN servers : InstallFiles(s)
    \/ \E s \in DOMAIN servers : DoStartLoad(s)
    \/ \E s \in DOMAIN servers : DoStartStore(s)
    \/ \E s \in DOMAIN servers : Spawn(s)
    \/ \E s \in DOMAIN servers : PollReady(s)
    \/ \E s \in DOMAIN servers : PollTimeout(s)
    \/ \E s \in DOMAIN servers : URIStart(s)
    \/ \E s \in DOMAIN servers : URIStore(s)

\* The (suite, mode) iterations of a run are bounded: a suite is only entered, and
\* a server only taken, while iterations remain
MoreRuns == runNo < MaxRuns

\* The harness as findSuites (src/unnamed/part_002:1966-1978) wires it: the modes
\* of a suite are "uri" and "single"
Next ==
    \/ CommonStep
    \/ CNSRemoveExit
    \/ CNSRemoveSuite
    \/ ListenerStep
    \/ MoreRuns /\ NextSuite
    \/ MoreRuns /\ \E k \in {"uri", "single"} : NextMode(k)
    \/ Prepare

Spec == Init /\ [][Next]_vars

\* The harness with one suite of the one mode "cluster" (CQLCluster), in a run in
\* which no interrupt arrives.  The one CleanupBeforeNextSuite of such a run finds
\* both queues empty, so its loops make no iteration.
NoModeYet == kind = "none"

NextCluster ==
    \/ CommonStep
    \/ NoModeYet /\ NextSuite
    \/ NoModeYet /\ NextMode("cluster")
    \/ ClusterStart

SpecCluster == Init /\ [][NextCluster]_vars

(***************************************************************************)
(* Observations on the history variables.                                  *)
(***************************************************************************)
\* The artefacts whose Remove() goroutine `who` has invoked after the first n
\* entries of the log, in the order of the invocations
RemovedBy(who, n) ==
    LET sel == SelectSeq(SubSeq(removed, n + 1, Len(removed)), LAMBDA r : r.by = who)
    IN  [i \in 1..Len(sel) |-> sel[i].a]

\* The first n elements of q
Prefix(q, n) == SubSeq(q, 1, n)

\* The artefacts of q that belong to server s
OfServer(q, s) == SelectSeq(q, LAMBDA a : a.srv = s)

C2_CleanupBeforeNextSuiteEmpties ==
    pc = "prepare" =>
        /\ removeBeforeExit = <<>>
        /\ removeBeforeNextSuite = <<>>
        /\ failed = <<>>

\* CleanupBeforeNextSuite has returned from a lane in which all three were non-empty
C2_Witness ==
    /\ pc = "prepare"
    /\ call.exit # <<>> /\ call.suite # <<>> /\ call.failed # <<>>
    /\ removeBeforeExit = <<>> /\ removeBeforeNextSuite = <<>> /\ failed = <<>>

Pending(q, i) == {q[j] : j \in {k \in DOMAIN q : k >= i}}

\* The artefact a is in the exit-scoped queue, or in the part a running exit-scoped
\* cleanup has yet to remove
RegisteredOrBeingRemoved(a) ==
    \/ a \in Pending(removeBeforeExit, 1)
    \/ pc \in {"cns_exit", "cbe"} /\ a \in Pending(msnap, mi)
    \/ lpc = "cbe" /\ a \in Pending(lsnap, li)

\* C4: in single mode, in every reachable state in which the spawned process of a
\* server is alive, the stop artefact of that server is in the exit-scoped queue
\* or is being removed by a running exit-scoped cleanup.
C4_AliveProcessIsRegistered ==
    \A s \in DOMAIN servers :
        servers[s].kind = "single" /\ servers[s].proc = "alive" =>
            RegisteredOrBeingRemoved(Artefact("stop", s))

NoExecutable == ~exe.exists \/ ~OSCanExecute(exe.mode)

\* C6: when the file at builddir/scylla is missing or not executable, Start of a
\* single-mode server fails at the check of the executable: it returns an error,
\* no process is spawned, no address is leased and neither queue gains an
\* artefact of the server.
C6_NoExecutableNoEffect ==
    \A s \in DOMAIN servers :
        servers[s].kind = "single" /\ servers[s].pc # "idle" /\ NoExecutable =>
            /\ servers[s].pc \in {"find", "done"}
            /\ servers[s].pc = "done" => servers[s].err # ""
            /\ servers[s].proc = "none"
            /\ servers[s].uri = 0 /\ leases = <<>>
            /\ OfServer(removeBeforeExit, s) = <<>>
            /\ OfServer(removeBeforeNextSuite, s) = <<>>

\* The rank of a server state in the order NotInstalled, Installed, Started, Ready,
\* Connected
StateRank(st) ==
    CASE st = "NotInstalled" -> 0
      [] st = "Installed" -> 1
      [] st = "Started" -> 2
      [] st = "Ready" -> 3
      [] st = "Connected" -> 4

\* Where a spawned server is in its life, read off the program state
StateOrder(s) ==
    \* the directory is made only once the executable has been located
    /\ StateRank(servers[s].state) >= 1 => exe.exists
    \* the spawn is attempted only once the directory has been made
    /\ servers[s].pc \in {"ds_load", "ds_store", "spawn"} => servers[s].state = "Installed"
    /\ servers[s].proc # "none" <=> StateRank(servers[s].state) >= 2
    /\ servers[s].pc = "poll" => servers[s].state = "Started"
    \* the namespace is set up only once readiness has been observed
    /\ servers[s].pc \in {"uri_start", "uri_store"} => servers[s].state = "Ready"
    /\ servers[s].nsTried => StateRank(servers[s].state) >= 3
    \* a session is opened only on a server whose Start has returned nil
    /\ servers[s].state = "Connected" => servers[s].pc = "done" /\ servers[s].err = ""

ReachedSpawn(s) ==
    \/ servers[s].pc \in {"spawn", "poll", "uri_start", "uri_store"}
    \/ servers[s].pc = "done" /\ servers[s].state # "NotInstalled"

\* C9: no registration is lost to a race: when every node start of a cluster has
\* finished, the exit-scoped queue holds the stop artefact of every node that got
\* as far as the spawn.
C9_NoRegistrationLost ==
    (/\ kind = "cluster" /\ pc = "start_wait"
     /\ \A i \in DOMAIN cur : servers[cur[i]].pc = "done") =>
        \A i \in DOMAIN cur :
            ReachedSpawn(cur[i]) =>
                Artefact("stop", cur[i]) \in Pending(removeBeforeExit, 1)

\* C10: once an interrupt has arrived, the harness does not leave while a server
\* process is alive, whether spawned before or after; it leaves with a non-zero
\* status, and the listener removes no suite-scoped artefact.
C10_InterruptKillsAll ==
    /\ lpc # "idle" /\ exited =>
          \A s \in DOMAIN servers : servers[s].proc # "alive"
    \* main has not reached its own os.Exit: the listener ended the harness
    /\ lpc = "exit" /\ exited /\ pc # "exit" => exitCode # 0
    /\ \A i \in DOMAIN removed :
          removed[i].by = "listener" => removed[i].a.kind = "stop"

(***************************************************************************)
(* Cluster start.                                                          *)
(***************************************************************************)
\* The nodes of the cluster whose Start has not returned yet
NodesInFlight == {s \in DOMAIN servers : servers[s].kind = "node" /\ servers[s].pc # "done"}

\* The nodes of the cluster whose Start has returned an error
NodesFailed == {s \in DOMAIN servers : servers[s].kind = "node" /\ servers[s].pc = "done"
                                        /\ servers[s].err # ""}

\* C11: CQLCluster.Start starts every node and returns only when the Start of
\* every node has returned; a node whose Start is still running can always take
\* its next step, whatever its siblings have returned: it is never cancelled or
\* skipped.
C11_ClusterBarrier ==
    /\ kind = "cluster" /\ pc \notin {"cns_exit", "cns_suite", "prepare"} =>
          /\ Len(cur) = ClusterSize
          /\ \A i \in DOMAIN cur : servers[cur[i]].pc # "idle"
    /\ kind = "cluster" /\ pc \notin {"cns_exit", "cns_suite", "prepare", "start_wait"} =>
          NodesInFlight = {}
    /\ \A s \in NodesInFlight : pc = "start_wait" /\ ~exited /\ ENABLED StartStep(s)

\* Every node start has finished: one in an error, one in the timeout, one ready
C11_Witness ==
    /\ kind = "cluster" /\ pc = "start_wait" /\ StartFinished
    /\ \E s, t, u \in DOMAIN servers :
          /\ servers[s].err = "mkdir"
          /\ servers[t].err = "timeout"
          /\ servers[u].err = "" /\ servers[u].state = "Ready"

\* The elements of a sequence
Range(q) == {q[i] : i \in DOMAIN q}

\* C12: when every node start has finished, CQLCluster.Start returns nil exactly
\* if every node's Start returned nil; otherwise it returns one error, that of the
\* failing node which was the first to send on the status channel.  The channel
\* holds the failing nodes, each once.
C12_ClusterStartResult ==
    (kind = "cluster" /\ pc = "start_wait" /\ StartFinished) =>
        /\ StartResult = "" <=> NodesFailed = {}
        /\ Range(status) = NodesFailed
        /\ Len(status) = Cardinality(NodesFailed)
        /\ NodesFailed # {} =>
              /\ Head(status) \in NodesFailed
              /\ StartResult = servers[Head(status)].err

\* Two nodes have failed with different errors and the third has not; the error of
\* the first sender is the result
C12_Witness ==
    /\ kind = "cluster" /\ pc = "start_wait" /\ StartFinished
    /\ Len(status) = 2
    /\ servers[status[1]].err = "timeout" /\ servers[status[2]].err = "mkdir"
    /\ StartResult = "timeout"

\* C13: after a cluster start in which some node failed, every node whose process
\* was spawned and is alive has its stop artefact in the exit-scoped queue, and
\* once the exit-scoped cleanup that follows has returned no node process is alive.
C13_FailedClusterTornDown ==
    /\ (/\ kind = "cluster" /\ NodesFailed # {}
        /\ \/ pc = "start_wait" /\ StartFinished
           \/ pc = "ret") =>
          \A i \in DOMAIN cur :
              servers[cur[i]].proc = "alive" =>
                  Artefact("stop", cur[i]) \in Range(removeBeforeExit)
    /\ (kind = "cluster" /\ NodesFailed # {} /\ pc = "exit") =>
          \A i \in DOMAIN cur : servers[cur[i]].proc # "alive"

(***************************************************************************)
(* Leases.                                                                 *)
(***************************************************************************)
\* The server has an address leased from the lane: one it leased in Install, or
\* one CQLCluster.Start leased for it
HasLease(s) == servers[s].kind \in {"single", "node"} /\ servers[s].uri # 0

\* The number of Remove() calls made on the release artefact of server s
TimesReleased(s) ==
    Cardinality({i \in DOMAIN removed : removed[i].a = Artefact("release", s)})

\* The servers whose lease is outstanding: leased and not released
Outstanding == {s \in DOMAIN servers : HasLease(s) /\ TimesReleased(s) = 0}

\* C14: no two leases outstanding at the same time hold the same address; the
\* nodes of a cluster have pairwise distinct addresses.
C14_LeasesDistinct ==
    \A s, t \in Outstanding : s # t => servers[s].uri # servers[t].uri

\* The release artefacts of server s in the suite-scoped queue
ReleaseArtefacts(s) ==
    SelectSeq(removeBeforeNextSuite, LAMBDA a : a = Artefact("release", s))

\* C15: every lease is released exactly once: a lease has one release artefact,
\* registered when it is taken (the queue holds it until it is removed, and the
\* number of leases is the number of servers that hold one), it is never released
\* twice, and when main leaves through os.Exit(0) no lease is outstanding.
C15_LeasesReleasedOnce ==
    /\ Len(leases) = Cardinality({s \in DOMAIN servers : HasLease(s)})
    /\ \A s \in DOMAIN servers :
          HasLease(s) =>
              /\ TimesReleased(s) <= 1
              /\ Len(ReleaseArtefacts(s)) + TimesReleased(s) >= 1
              /\ Len(ReleaseArtefacts(s)) <= 1
    /\ (exited /\ pc = "exit" /\ exitCode = 0) => Outstanding = {}

(***************************************************************************)
(* CQLServer_stop_artefact.Remove in detail: an exit-scoped cleanup removes *)
(* the stop artefacts of NumProcs spawned processes, one after the other.  *)
(* The harness-level variables stay as they are.                           *)
(***************************************************************************)
\* A spawned server process: alive, no signal pending; it may be one that does
\* not die of the graceful signal
NewProcess(ignores) == [state |-> "alive", pending |-> {}, ignoresTerm |-> ignores]

InitStop ==
    /\ force = FALSE
    /\ exe = [exists |-> TRUE, mode |-> 493]
    /\ laneDir = "fresh"
    /\ HarnessStart
    /\ sprocs \in [1..NumProcs -> {NewProcess(b) : b \in BOOLEAN}]
    /\ si = 1 /\ spc = "next"
    /\ timer = "none" /\ clock = 0
    /\ sigs = <<>> /\ fallback = {}
    /\ TestIdle
    /\ TextIdle

\* kill(2): the signal is pending on a process that is alive
Signal(p, sig, who) ==
    /\ sprocs' = [sprocs EXCEPT ![p].pending =
                      IF sprocs[p].state = "alive" THEN @ \cup {sig} ELSE @]
    /\ sigs' = Append(sigs, [to |-> p, sig |-> sig, by |-> who])

\* The signal `a.cmd.Process.Kill()` sends: os.Process.Kill sends SIGKILL
ProcessKillSignal == "KILL"

\* Remove: `a.cmd.Process.Kill()`
StopKill ==
    /\ spc = "next" /\ si <= NumProcs
    /\ Signal(si, ProcessKillSignal, "remove")
    /\ spc' = "killed"
    /\ UNCHANGED <<harnessVars, testVars, textVars, si, timer, clock, fallback>>

\* Remove: `timer := time.AfterFunc(3*time.Second, func() {...})`
StopArm ==
    /\ spc = "killed"
    /\ timer' = "armed"
    /\ clock' = 0
    /\ spc' = "armed"
    /\ UNCHANGED <<harnessVars, testVars, textVars, sprocs, si, sigs, fallback>>

\* Remove: `timer.Stop()`, whose result is dropped.  It has no effect on a timer
\* that has fired, and does not wait for the function such a timer has started.
StopDisarm ==
    /\ spc = "armed"
    /\ timer' = IF timer = "armed" THEN "stopped" ELSE timer
    /\ spc' = "wait"
    /\ UNCHANGED <<harnessVars, testVars, textVars, sprocs, si, clock, sigs, fallback>>

\* Remove: `a.cmd.Process.Wait()` returns once the process is gone; Remove returns
\* and the loop of the cleanup goes to the next artefact
StopWait ==
    /\ spc = "wait"
    /\ sprocs[si].state = "dead"
    /\ spc' = "next"
    /\ si' = si + 1
    /\ UNCHANGED <<harnessVars, testVars, textVars, sprocs, timer, clock, sigs, fallback>>

\* A second passes while the timer is armed
Tick ==
    /\ timer = "armed" /\ clock < GraceWindow
    /\ clock' = clock + 1
    /\ UNCHANGED <<harnessVars, testVars, textVars, sprocs, si, spc, timer, sigs, fallback>>

\* The timer of AfterFunc expires: the runtime starts its function in a goroutine
\* of its own.  The function holds the artefact Remove is at.
TimerFire ==
    /\ timer = "armed" /\ clock = GraceWindow
    /\ timer' = "fired"
    /\ fallback' = fallback \cup {si}
    /\ UNCHANGED <<harnessVars, testVars, textVars, sprocs, si, spc, clock, sigs>>

\* The function of AfterFunc runs: `syscall.Kill(a.cmd.Process.Pid, syscall.SIGKILL)`
FallbackKill(p) ==
    /\ p \in fallback
    /\ Signal(p, "KILL", "timer")
    /\ fallback' = fallback \ {p}
    /\ UNCHANGED <<harnessVars, testVars, textVars, si, spc, timer, clock>>

\* A process dies of a pending SIGKILL, or of a pending SIGTERM it does not ignore
ProcExit(p) ==
    /\ sprocs[p].state = "alive"
    /\ \/ "KILL" \in sprocs[p].pending
       \/ "TERM" \in sprocs[p].pending /\ ~sprocs[p].ignoresTerm
    /\ sprocs' = [sprocs EXCEPT ![p].state = "dead"]
    /\ UNCHANGED <<harnessVars, testVars, textVars, si, spc, timer, clock, sigs, fallback>>

NextStop ==
    \/ StopKill
    \/ StopArm
    \/ StopDisarm
    \/ StopWait
    \/ Tick
    \/ TimerFire
    \/ \E p \in DOMAIN sprocs : FallbackKill(p)
    \/ \E p \in DOMAIN sprocs : ProcExit(p)

SpecStop == InitStop /\ [][NextStop]_vars

\* The signals Remove and its timer have sent to process p, in order
SignalsTo(p) ==
    LET sel == SelectSeq(sigs, LAMBDA m : m.to = p) IN [i \in 1..Len(sel) |-> sel[i].sig]

\* C16: Remove of a stop artefact first sends the graceful terminate signal; while
\* it waits for a process that is still alive the forced-kill fallback is armed (or
\* has fired); the fallback is disarmed only once the process is gone.
C16_EscalatingShutdown ==
    /\ \A p \in DOMAIN sprocs : SignalsTo(p) # <<>> => SignalsTo(p)[1] = "TERM"
    /\ (spc = "wait" /\ sprocs[si].state = "alive") => timer \in {"armed", "fired"}
    /\ (timer = "stopped" /\ si <= NumProcs /\ spc # "next") => sprocs[si].state = "dead"

\* C34: the forced-kill fallback never fires after the exit of the process has
\* been observed: once the Wait of Remove has returned for a process, no signal
\* is sent to it any more.
C34_NoKillAfterExitObserved ==
    [][Len(sigs') > Len(sigs) => sigs'[Len(sigs')].to >= si]_vars

(***************************************************************************)
(* Test results and the lane directory.                                    *)
(***************************************************************************)
\* The test runs recorded with result r, and among them those of (suite, mode)
\* iteration n
WithResult(r) == SelectSeq(outcomes, LAMBDA o : o.res = r)
FailedInRun(n) == SelectSeq(WithResult("fail"), LAMBDA o : o.run = n)

\* The names of the recorded test runs q
Names(q) == [i \in DOMAIN q |-> q[i].name]

\* C25: when a test fails in RunSuite, the suite return code is non-zero and the
\* test's name is recorded; without force no later test of the suite is run for
\* that mode, with force the loop goes on with the next test, in order, and the
\* suite returns only after its last test.
C25_FailAndForce ==
    /\ [][(nRunTest' # nRunTest /\ Len(WithResult("fail"))' > Len(WithResult("fail"))) =>
             /\ suite_rc' # 0
             /\ failed' = Append(failed, FullName(suiteNo, testNo + 1))
             /\ ~force => pc' = "suite_ret"
             /\ force => pc' = IF testNo + 1 < NumTests THEN "tests" ELSE "suite_ret"]_vars
    /\ [][nRunTest' # nRunTest =>
             /\ testNo' = testNo + 1
             /\ ~force => FailedInRun(runNo) = <<>>]_vars
    /\ [](pc = "suite_ret" =>
             /\ force => testNo = NumTests
             /\ suite_rc # 0 <=> FailedInRun(runNo) # <<>>
             /\ failed = Names(FailedInRun(runNo)))

\* With force, the first test of a suite has failed, the second one has been run
\* and has failed too, and RunSuite has returned
C25_Witness ==
    /\ force /\ pc = "suite_ret"
    /\ testNo = NumTests
    /\ Len(FailedInRun(runNo)) = NumTests
    /\ suite_rc = 1

\* C26: when RunSuites returns, the list of failed tests it returns holds exactly
\* the names of the test runs that returned "fail", in order, one entry for each;
\* the return code is non-zero exactly if a test failed or a harness-level error
\* (PrepareLane, Connect, or an error of RunTest) ended the run.
C26_ResultConsistent ==
    pc = "ret" =>
        /\ failedAcc = Names(WithResult("fail"))
        /\ retRc # 0 <=> (WithResult("fail") # <<>> \/ WithResult("err") # <<>> \/ infra)

C29_LaneRemovedOnSuccess ==
    (exited /\ pc = "exit") =>
        IF exitCode = 0 THEN laneDir = "absent" /\ srvDirs = {}
        ELSE laneDir = "fresh"

(***************************************************************************)
(* cql_test_file.RunTest in detail: one test file, its result and reject   *)
(* files, and a Connection, over several runs between which the user and   *)
(* the server may change things.  The lane directory and the suite         *)
(* directory are writable and on one file system: the file operations of   *)
(* RunTest succeed.  The harness-level variables stay as they are.         *)
(***************************************************************************)
\* The lines of a test file
Stmt(n) == [kind |-> "stmt", n |-> n]
CommentLine == [kind |-> "comment", n |-> 0]
BlankLine == [kind |-> "blank", n |-> 0]

\* commentRE: `^\s*((--|\/\/).*)?$` matches the comment lines and the blank lines
IsComment(line) == line.kind \in {"comment", "blank"}

\* The statements the test files are made of
Statements == {1, 2}

\* The test files considered: empty, a comment and a statement, two statements
\* around a blank line
TestFiles ==
    {<<>>, <<CommentLine, Stmt(1)>>, <<Stmt(1), BlankLine, Stmt(2)>>}

\* What the driver gets for a statement: rows, an error the server reports
\* (gocql.RequestError), or a transport or driver-internal error ("lost")
Answers == {"rows", "error", "lost"}
Connections == [Statements -> Answers]

\* Fault variant of Execute: an error the server reports is returned as an error
ExecuteErrorFails(r, line) ==
    CASE r[line.n] = "rows" -> [response |-> "OK", err |-> FALSE]
      [] OTHER -> [response |-> "", err |-> TRUE]

\* What Execute returns when the driver gets answer ans: the rendered CQLResult
\* and a nil error, or no text and the error
Rendered(ans) ==
    CASE ans = "rows" -> [response |-> "OK", err |-> FALSE]
      [] ans = "error" -> [response |-> "ERROR", err |-> FALSE]
      [] ans = "lost" -> [response |-> "", err |-> TRUE]

\* Connection.Execute on a Connection that answers as r says
Execute(r, line) == Rendered(r[line.n])

\* `fmt.Fprintln(output, line)` and `fmt.Fprint(output, response)`
Echo(line) == <<"line", line.kind, line.n>>
Response(r, line) == <<"response", Execute(r, line).response>>

RECURSIVE Render(_, _)
\* The output the loop of RunTest writes for the lines, with Connection r: every
\* line echoed, every line that is not a comment followed by its response
Render(lines, r) ==
    IF lines = <<>> THEN <<>>
    ELSE LET line == Head(lines)
         IN  (IF IsComment(line) THEN <<Echo(line)>>
              ELSE <<Echo(line), Response(r, line)>>) \o Render(Tail(lines), r)

\* The index of the first line whose Execute fails (0: none)
FirstLost(lines, r) ==
    LET bad == {i \in DOMAIN lines : ~IsComment(lines[i]) /\ Execute(r, lines[i]).err}
    IN  IF bad = {} THEN 0 ELSE CHOOSE i \in bad : \A j \in bad : i <= j

RECURSIVE SubmittedGoesOn(_, _)
\* Fault variant of Submitted: the loop goes on after an Execute that failed
SubmittedGoesOn(lines, r) ==
    IF lines = <<>> THEN <<>>
    ELSE LET line == Head(lines)
         IN  IF IsComment(line) THEN SubmittedGoesOn(Tail(lines), r)
             ELSE <<line>> \o SubmittedGoesOn(Tail(lines), r)

RECURSIVE Submitted(_, _)
\* The lines the loop of RunTest passes to c.Execute, in order: every line that is
\* not a comment, up to the first one whose Execute returns an error
Submitted(lines, r) ==
    IF lines = <<>> THEN <<>>
    ELSE LET line == Head(lines)
         IN  IF IsComment(line) THEN Submitted(Tail(lines), r)
             ELSE IF Execute(r, line).err THEN <<line>>
             ELSE <<line>> \o Submitted(Tail(lines), r)

InitTest ==
    /\ force \in BOOLEAN
    /\ exe = [exists |-> TRUE, mode |-> 493]
    /\ laneDir = "fresh"
    /\ HarnessStart
    /\ StopIdle
    /\ TextIdle
    /\ tfile \in TestFiles
    /\ resp \in Connections
    /\ golden = NoFile /\ reject = NoFile /\ tmp = NoFile
    /\ nruns = 0 /\ last = NoRun /\ prevOutcome = "none" /\ changed = FALSE

\* Fault variant of CompareFile: the files are never found equal
CompareFileNever(a, b) == FALSE

\* equalfile's CompareFile on two files that are there: byte equality
CompareFile(a, b) == a = b

\* Fault variant of KeepAsGolden: the temporary file is dropped
KeepAsGoldenLost(c) == UNCHANGED <<golden, reject>>

\* `os.Rename(tmpfile_name, test.result)`
KeepAsGolden(c) == golden' = File(c) /\ UNCHANGED reject

\* Fault variant of KeepAsReject: the output is moved over the result file
KeepAsRejectOverGolden(c) == golden' = File(c) /\ UNCHANGED reject

\* `os.Rename(tmpfile_name, test.reject)`
KeepAsReject(c) == reject' = File(c) /\ UNCHANGED golden

\* The history record of the call that is being made
ThisRun(outcome, written) ==
    [outcome |-> outcome, output |-> written, executed |-> Submitted(tfile, resp),
     resp |-> resp, goldenBefore |-> golden,
     rejectBefore |-> reject, changedBefore |-> changed]

\* One call of RunTest on the test file
RunTestFile ==
    /\ nruns < MaxTestRuns
    /\ nruns' = nruns + 1
    /\ prevOutcome' = last.outcome
    /\ changed' = FALSE
    /\ LET lost == FirstLost(tfile, resp)
           out == Render(tfile, resp)
       IN  IF lost # 0
           THEN \* `return "", merry.Wrap(err)`: the temporary file stays, with as
                \* much of the output as the bufio.Writer has written out
                /\ LET sofar == Render(Prefix(tfile, lost - 1), resp)
                                    \o <<Echo(tfile[lost])>>
                   IN  \E k \in 0..Len(sofar) : tmp' = File(Prefix(sofar, k))
                /\ last' = ThisRun("err", <<>>)
                /\ UNCHANGED <<golden, reject>>
           ELSE IF golden.exists /\ CompareFile(out, golden.content)
                THEN \* isEqualResult: `os.Remove(tmpfile_name)`
                     /\ tmp' = NoFile
                     /\ last' = ThisRun("pass", out)
                     /\ UNCHANGED <<golden, reject>>
                ELSE IF ~golden.exists
                     THEN \* isNew
                          /\ KeepAsGolden(out)
                          /\ tmp' = NoFile
                          /\ last' = ThisRun("new", out)
                     ELSE /\ KeepAsReject(out)
                          /\ tmp' = NoFile
                          /\ last' = ThisRun("fail", out)
    /\ UNCHANGED <<harnessVars, stopVars, textVars, tfile, resp>>

\* The user edits the result file (its expected rows)
EditGolden ==
    /\ nruns < MaxTestRuns
    /\ \E r \in Connections :
          /\ FirstLost(tfile, r) = 0
          /\ golden' = File(Render(tfile, r))
          /\ golden' # golden
    /\ changed' = TRUE
    /\ UNCHANGED <<harnessVars, stopVars, textVars, tfile, resp, reject, tmp, nruns, last,
                   prevOutcome>>

\* The user accepts the new output: `mv testname.reject testname.result`
AcceptReject ==
    /\ nruns < MaxTestRuns
    /\ reject.exists
    /\ golden' = reject
    /\ reject' = NoFile
    /\ changed' = TRUE
    /\ UNCHANGED <<harnessVars, stopVars, textVars, tfile, resp, tmp, nruns, last, prevOutcome>>

\* The server (or the data in it) changes: statements are answered differently
ServerChange ==
    /\ nruns < MaxTestRuns
    /\ \E r \in Connections : r # resp /\ resp' = r
    /\ changed' = TRUE
    /\ UNCHANGED <<harnessVars, stopVars, textVars, tfile, golden, reject, tmp, nruns, last,
                   prevOutcome>>

NextTest ==
    \/ RunTestFile
    \/ EditGolden
    \/ AcceptReject
    \/ ServerChange

SpecTest == InitTest /\ [][NextTest]_vars

\* The most recent call ran every statement of the file without a transport failure
LastRunComplete == nruns > 0 /\ FirstLost(tfile, last.resp) = 0

\* The output the most recent call produces, from the file and the Connection it had
LastOutput == Render(tfile, last.resp)

\* C17: a call of RunTest that finds no result file and runs every statement
\* without a transport failure returns "new"; after it the result file exists with
\* exactly the output of the call, and the reject file is as it was (none is
\* created).
C17_FirstRunIsNew ==
    (LastRunComplete /\ ~last.goldenBefore.exists) =>
        /\ last.outcome = "new"
        /\ last.output = LastOutput
        /\ ~changed =>
              /\ golden = File(LastOutput)
              /\ reject = last.rejectBefore
              /\ tmp = NoFile

\* A first run of a file with statements has returned "new"
C17_Witness ==
    /\ nruns = 1 /\ ~changed
    /\ last.outcome = "new"
    /\ Len(tfile) = 3
    /\ golden = File(LastOutput)
    /\ ~reject.exists

\* C18: with the same Connection and nothing changed in between, the call that
\* follows a call that returned "new" or "pass" returns "pass" and leaves the
\* result file as it was.
C18_RerunPasses ==
    (nruns >= 2 /\ prevOutcome \in {"new", "pass"} /\ ~last.changedBefore) =>
        /\ last.outcome = "pass"
        /\ ~changed => golden = last.goldenBefore /\ tmp = NoFile

\* A run that returned "new" has been followed by an unchanged re-run
C18_Witness ==
    /\ nruns = 2 /\ prevOutcome = "new" /\ ~last.changedBefore /\ ~changed
    /\ last.outcome = "pass"
    /\ Len(tfile) = 3
    /\ golden = File(LastOutput)

\* C19: a call that finds a result file different from the output it produces
\* returns "fail"; after it the reject file holds exactly that output and the
\* result file is as it was.
C19_MismatchFails ==
    (/\ LastRunComplete
     /\ last.goldenBefore.exists
     /\ last.goldenBefore.content # LastOutput) =>
        /\ last.outcome = "fail"
        /\ last.output = LastOutput
        /\ ~changed =>
              /\ reject = File(LastOutput)
              /\ golden = last.goldenBefore
              /\ tmp = NoFile

\* The result file was edited after a first run, and the re-run has failed
C19_Witness ==
    /\ nruns = 2 /\ prevOutcome = "new" /\ last.changedBefore /\ ~changed
    /\ last.outcome = "fail"
    /\ reject = File(LastOutput)
    /\ golden = last.goldenBefore /\ golden # reject

\* C20: whenever the most recent call of RunTest returned "pass", there is no
\* reject file.
C20_NoRejectAfterPass ==
    last.outcome = "pass" => ~reject.exists


\* The statements (the lines that are not blank or comment lines) among lines
StatementsOf(lines) == SelectSeq(lines, LAMBDA l : l.kind = "stmt")

EchoAt(i) == i + Len(StatementsOf(Prefix(tfile, i - 1)))

MaxLines == 3

\* `\s` of Go's regexp: a space, or one of \t \n \f \r (here: the tab)
Whitespace == {" ", "\t"}

\* The lines a script is made of: blank, white, a `--` comment, an indented `//`
\* comment, a statement that begins with a single dash, a statement followed by a
\* comment, a line that does not end with `;`, and a statement
ScriptLines ==
    {<<>>, <<" ", "\t">>, <<"-", "-", "x">>, <<" ", "/", "/">>, <<"-", "x", ";">>,
     <<"x", ";", "-", "-">>, <<"x">>, <<"x", ";">>}

Scripts == UNION {[1..n -> ScriptLines] : n \in 0..MaxLines}

RECURSIVE SkipSpace(_)
\* What is left of a line after `^\s*`
SkipSpace(line) ==
    IF line # <<>> /\ Head(line) \in Whitespace THEN SkipSpace(Tail(line)) ELSE line

\* Fault variant of commentRE: `^((--|\/\/).*)?$`, no leading whitespace
commentRENoIndent(line) ==
    line = <<>> \/ (Len(line) >= 2 /\ line[1] = line[2] /\ line[1] \in {"-", "/"})

\* commentRE.MatchString(line), commentRE being `^\s*((--|\/\/).*)?$`
commentRE(line) ==
    LET rest == SkipSpace(line)
    IN  rest = <<>> \/ (Len(rest) >= 2 /\ rest[1] = rest[2] /\ rest[1] \in {"-", "/"})

\* Fault variant of Query: a line that ends with `;` is sent with the line before
\* it when that one does not end with `;`
QueryJoined(lines, n) ==
    IF /\ n > 1 /\ lines[n] # <<>> /\ lines[n][Len(lines[n])] = ";"
       /\ lines[n - 1] # <<>> /\ lines[n - 1][Len(lines[n - 1])] # ";"
    THEN lines[n - 1] \o <<"\n">> \o lines[n]
    ELSE lines[n]

\* `c.Execute(line)`: the statement sent for line n is that line
Query(lines, n) == lines[n]

InitScript ==
    /\ HarnessIdle
    /\ DiffIdle /\ FindIdle /\ PollIdle /\ BarrierIdle
    /\ script \in Scripts
    /\ lineNo = 0 /\ output = <<>> /\ calls = <<>>
    /\ rpc = "scan"

\* One iteration of `for input.Scan()`: the line is echoed; a line that commentRE
\* does not match is executed, and its response written or the error returned
ScanLine ==
    /\ rpc = "scan"
    /\ lineNo < Len(script)
    /\ lineNo' = lineNo + 1
    /\ LET line == script[lineNo']
           echoed == Append(output, <<"line", line>>)
       IN  IF commentRE(line)
           THEN output' = echoed /\ UNCHANGED <<calls, rpc>>
           ELSE /\ calls' = Append(calls, Query(script, lineNo'))
                /\ \E ans \in Answers :
                      IF Rendered(ans).err
                      THEN output' = echoed /\ rpc' = "err"
                      ELSE /\ output' = Append(echoed, <<"response", Rendered(ans).response>>)
                           /\ UNCHANGED rpc
    /\ UNCHANGED <<harnessVars, stopVars, testVars, barrierVars, pollVars, diffVars, findVars, script>>

\* input.Scan() returns false at the end of the file: `output.Flush()`
ScanEnd ==
    /\ rpc = "scan"
    /\ lineNo = Len(script)
    /\ rpc' = "done"
    /\ UNCHANGED <<harnessVars, stopVars, testVars, barrierVars, pollVars, diffVars, findVars, script, lineNo,
                   output, calls>>

NextScript ==
    \/ ScanLine
    \/ ScanEnd

SpecScript == InitScript /\ [][NextScript]_vars

\* A blank or comment line: optional whitespace, then nothing, or `--` or `//` and
\* anything
IsBlankOrComment(line) ==
    \E k \in 0..Len(line) :
        /\ \A j \in 1..k : line[j] \in Whitespace
        /\ \/ k = Len(line)
           \/ /\ k + 2 <= Len(line)
              /\ <<line[k + 1], line[k + 2]>> \in {<<"-", "-">>, <<"/", "/">>}

\* C21: every line read is echoed to the output as it is, in order; the lines
\* passed to Execute are exactly the lines that are not blank or comment lines,
\* each of them in exactly one call, and every response written belongs to one
\* of these calls.
C21_CommentsEchoedNotExecuted ==
    LET Echoes == SelectSeq(output, LAMBDA e : e[1] = "line")
        Responses == SelectSeq(output, LAMBDA e : e[1] = "response")
    IN  /\ Echoes = [i \in 1..lineNo |-> <<"line", script[i]>>]
        /\ \A i \in DOMAIN calls : ~IsBlankOrComment(calls[i])
        /\ calls = SelectSeq(Prefix(script, lineNo), LAMBDA l : ~IsBlankOrComment(l))
        /\ Len(Responses) = Len(calls) - (IF rpc = "err" THEN 1 ELSE 0)

\* A script of an indented comment, a statement and a blank line has been read to
\* its end
C21_Witness ==
    /\ rpc = "done"
    /\ script = << <<" ", "/", "/">>, <<"-", "x", ";">>, <<>> >>
    /\ calls = << <<"-", "x", ";">> >>
    /\ Len(output) = 4

\* The lines of a statement of several lines: none is blank or a comment, and
\* only the last one ends with the terminator
OneStatement(lines) ==
    LET Terminated(line) == line # <<>> /\ line[Len(line)] = ";"
    IN  /\ Len(lines) >= 2
        /\ \A i \in DOMAIN lines :
              ~IsBlankOrComment(lines[i]) /\ (Terminated(lines[i]) <=> i = Len(lines))

RECURSIVE Joined(_)
\* The lines joined by newline
Joined(lines) ==
    IF Len(lines) = 1 THEN lines[1] ELSE lines[1] \o <<"\n">> \o Joined(Tail(lines))

MaxDiffLines == 62

\* `if len(lines) > 60`
DiffCap == 60

\* The diffs considered: n lines of two characters, the first of them " ", "+" or
\* "-" in turn from line k on, with a newline after every line (nl) or after every
\* line but the last
DiffTexts ==
    LET Mark(i) == CASE i % 3 = 0 -> " " [] i % 3 = 1 -> "+" [] OTHER -> "-"
        DiffText(n, nl, k) ==
            [j \in 1..(IF nl \/ n = 0 THEN 3 * n ELSE 3 * n - 1) |->
                CASE j % 3 = 0 -> "\n"
                  [] j % 3 = 1 -> Mark((j + 2) \div 3 + k)
                  [] OTHER -> "x"]
    IN  {DiffText(n, nl, k) : n \in 0..MaxDiffLines, nl \in BOOLEAN, k \in 0..1}

RECURSIVE Split(_)
\* strings.Split(s, "\n")
Split(s) ==
    LET nls == {i \in DOMAIN s : s[i] = "\n"}
    IN  IF nls = {} THEN <<s>>
        ELSE LET i == CHOOSE a \in nls : \A b \in nls : a <= b
             IN  <<SubSeq(s, 1, i - 1)>> \o Split(SubSeq(s, i + 1, Len(s)))

RECURSIVE Join(_)
\* strings.Join(lines, "\n")
Join(lines) ==
    IF lines = <<>> THEN <<>>
    ELSE IF Len(lines) = 1 THEN lines[1]
    ELSE lines[1] \o <<"\n">> \o Join(Tail(lines))

\* The loop body of TrimAndColorizeDiff: a line that inRE `^\+.*$` matches is
\* wrapped by palette.DiffIn, one that outRE `^\-.*$` matches by palette.DiffOut;
\* with color.NoColor set the palette adds nothing
Colorize(line, nc) ==
    LET Paint(code) == IF nc THEN line ELSE <<code>> \o line \o <<"<reset>">>
    IN  IF line # <<>> /\ line[1] = "+" THEN Paint("<green>")
        ELSE IF line # <<>> /\ line[1] = "-" THEN Paint("<red>")
        ELSE line

\* Fault variant of TrimAndColorizeDiff: the lines are cut one element too late
TrimAndColorizeDiffLate(d, nc) ==
    LET lines == Split(d)
        cut == IF Len(lines) > DiffCap + 1 THEN SubSeq(lines, 1, DiffCap + 1) ELSE lines
    IN  Join([i \in DOMAIN cut |-> IF i > 2 THEN Colorize(cut[i], nc) ELSE cut[i]])

\* TrimAndColorizeDiff(diff); the first two lines are not coloured
TrimAndColorizeDiff(d, nc) ==
    LET lines == Split(d)
        cut == IF Len(lines) > DiffCap THEN SubSeq(lines, 1, DiffCap) ELSE lines
    IN  Join([i \in DOMAIN cut |-> IF i > 2 THEN Colorize(cut[i], nc) ELSE cut[i]])

InitDiff ==
    /\ HarnessIdle
    /\ ScriptIdle /\ FindIdle /\ PollIdle /\ BarrierIdle
    /\ diff \in DiffTexts
    /\ noColor \in BOOLEAN
    /\ text = <<>>
    /\ dpc = "call"

\* PrintUniDiff: `TrimAndColorizeDiff(text)` is called and returns
Trim ==
    /\ dpc = "call"
    /\ text' = TrimAndColorizeDiff(diff, noColor)
    /\ dpc' = "ret"
    /\ UNCHANGED <<harnessVars, stopVars, testVars, barrierVars, pollVars, scriptVars, findVars, diff, noColor>>

SpecDiff == InitDiff /\ [][Trim]_vars

\* The lines of a text: what stands between its newlines, in order; a text that
\* ends with a newline has no further, empty, line after it.  Without the escape
\* sequences of the palette.
TextLines(s) ==
    LET plain == SelectSeq(s, LAMBDA c : c \notin {"<green>", "<red>", "<reset>"})
        nls == {i \in DOMAIN plain : plain[i] = "\n"}
        starts == {a \in {1} \cup {i + 1 : i \in nls} : a <= Len(plain)}
        End(a) == IF \E i \in nls : i >= a
                  THEN (CHOOSE i \in nls : i >= a /\ \A j \in nls : j >= a => i <= j) - 1
                  ELSE Len(plain)
        Start(k) == CHOOSE a \in starts : Cardinality({b \in starts : b < a}) = k - 1
    IN  [k \in 1..Cardinality(starts) |-> SubSeq(plain, Start(k), End(Start(k)))]

MaxPatterns == 2

\* The *.test.cql files a suite directory can hold, in the order of filepath.Glob
SuiteFiles == << <<"c", "/", "d", "l">>, <<"c", "/", "l", "w", "t">>, <<"l", "/", "l">> >>

\* The patterns the user can give
PatternArgs == {<<"l">>, <<"l", "w">>, <<"c", "/">>, <<"z">>}

\* strings.Contains(s, sub)
Contains(s, sub) ==
    \E i \in 0..(Len(s) - Len(sub)) : SubSeq(s, i + 1, i + Len(sub)) = sub

RECURSIVE SelectedOnce(_, _)
\* Fault variant of Selected: a file is taken once when any pattern matches
SelectedOnce(fs, ps) ==
    IF fs = <<>> THEN <<>>
    ELSE (IF \E i \in DOMAIN ps : Contains(Head(fs), ps[i]) THEN <<Head(fs)>> ELSE <<>>)
            \o SelectedOnce(Tail(fs), ps)

RECURSIVE Selected(_, _)
\* The loops of FindTests: for every file, for every pattern, a cql_test_file of
\* the file is appended when the file's path contains the pattern
Selected(fs, ps) ==
    IF fs = <<>> THEN <<>>
    ELSE LET hits == SelectSeq(ps, LAMBDA pat : Contains(Head(fs), pat))
         IN  [i \in DOMAIN hits |-> Head(fs)] \o Selected(Tail(fs), ps)

InitFind ==
    /\ HarnessIdle
    /\ ScriptIdle /\ DiffIdle /\ PollIdle /\ BarrierIdle
    /\ args \in UNION {[1..n -> PatternArgs] : n \in 0..MaxPatterns}
    /\ \E present \in SUBSET (DOMAIN SuiteFiles) :
          files = SelectSeq(SuiteFiles, LAMBDA f : \E i \in present : SuiteFiles[i] = f)
    /\ patterns = <<>> /\ tests = <<>> /\ ran = <<>>
    /\ fpc = "usage"

\* Env.Usage: `env.patterns = pflag.Args()`, and the wildcard "" when there are none
Usage ==
    /\ fpc = "usage"
    /\ patterns' = IF Len(args) = 0 THEN Append(args, <<>>) ELSE args
    /\ fpc' = "find"
    /\ UNCHANGED <<harnessVars, stopVars, testVars, barrierVars, pollVars, scriptVars, diffVars, args, files,
                   tests, ran>>

\* cql_test_suite.FindTests
FindTests ==
    /\ fpc = "find"
    /\ tests' = tests \o Selected(files, patterns)
    /\ fpc' = "found"
    /\ UNCHANGED <<harnessVars, stopVars, testVars, barrierVars, pollVars, scriptVars, diffVars, args, files,
                   patterns, ran>>

\* RunSuite: one iteration of `for _, test := range suite.tests`, the test passing
RunSelected ==
    /\ fpc = "found"
    /\ Len(ran) < Len(tests)
    /\ ran' = Append(ran, tests[Len(ran) + 1])
    /\ UNCHANGED <<harnessVars, stopVars, testVars, barrierVars, pollVars, scriptVars, diffVars, args, files,
                   patterns, tests, fpc>>

NextFind ==
    \/ Usage
    \/ FindTests
    \/ RunSelected

SpecFind == InitFind /\ [][NextFind]_vars

\* How often f occurs in the sequence q
Count(f, q) == Cardinality({i \in DOMAIN q : q[i] = f})

\* The number of patterns given, repeated ones counted, that f contains
Matching(f) ==
    Cardinality({i \in DOMAIN args :
                    \E a \in 1..(Len(f) + 1) : \E b \in (a - 1)..Len(f) :
                        SubSeq(f, a, b) = args[i]})

\* C30: a test file of the suite whose path contains k of the patterns given is in
\* suite.tests exactly k times, and has been run k times when RunSuite has gone
\* through the tests; with no pattern given every test file is there exactly once;
\* nothing else is in suite.tests.
C30_PatternsCountIndependently ==
    fpc = "found" =>
        /\ \A i \in DOMAIN files :
              LET f == files[i]
                  k == IF args = <<>> THEN 1 ELSE Matching(f)
              IN  /\ Count(f, tests) = k
                  /\ Len(ran) = Len(tests) => Count(f, ran) = k
        /\ \A i \in DOMAIN tests : \E j \in DOMAIN files : tests[i] = files[j]

\* The same pattern was given twice; one file contains it and has been run twice,
\* another file does not contain it
C30_Witness ==
    /\ fpc = "found"
    /\ args = << <<"l", "w">>, <<"l", "w">> >>
    /\ Len(files) = 3
    /\ ran = << <<"c", "/", "l", "w", "t">>, <<"c", "/", "l", "w", "t">> >>


(***************************************************************************)
(* The order of a (suite, mode) iteration, and what the lane and the       *)
(* servers look like at its boundaries.                                    *)
(***************************************************************************)
\* C31: for every suite and mode main performs, in this order,
\* CleanupBeforeNextSuite, the preparation of the mode, Connect, then the tests in
\* discovery order; whenever the preparation of a mode begins both queues of the
\* lane are empty and no server process spawned for an earlier mode or suite is
\* alive.
C31_IterationOrder ==
    /\ [][LET Enters(p) == pc' = p /\ pc # p IN
          /\ Enters("cns_exit") => pc = "modes" /\ runNo' = runNo + 1
          /\ Enters("prepare") => pc = "cns_suite"
          /\ Enters("start_wait") => pc = "prepare"
          /\ Enters("connect") => pc = "start_wait"
          /\ Enters("tests") => pc = "connect" /\ testNo' = 0
          /\ nRunTest' # nRunTest => pc = "tests" /\ testNo' = testNo + 1]_vars
    /\ [](pc = "prepare" =>
             /\ removeBeforeExit = <<>> /\ removeBeforeNextSuite = <<>>
             /\ \A s \in DOMAIN servers :
                    servers[s].proc = "alive" => s \in Range(cur))

(***************************************************************************)
(* The namespace set-up of CQLServerURI.Start.                             *)
(***************************************************************************)
\* C32: CQLServerURI.Start drops the namespace before it creates it, and
\* registers the dropks artefact in the suite-scoped queue only after the create
\* has succeeded; when CreateSession or the create fails, Start returns the error
\* and leaves both queues of the lane as they were.
C32_NamespaceSetUp ==
    /\ [](\A s \in DOMAIN servers :
             LET log == servers[s].admin
                 registers == \/ servers[s].pc = "uri_store"
                              \/ Artefact("dropks", s) \in Range(removeBeforeNextSuite)
             IN  /\ \A i \in DOMAIN log :
                        log[i] \in {"create", "create_failed"} =>
                            \E j \in 1..(i - 1) : log[j] = "drop"
                 /\ registers => log # <<>> /\ log[Len(log)] = "create"
                 /\ (log # <<>> /\ log[Len(log)] \in {"session_failed", "create_failed"}) =>
                        /\ servers[s].pc = "done"
                        /\ servers[s].err \in {"session", "create"})
    /\ [][\A s \in DOMAIN servers :
             servers[s].pc = "uri_start" /\ servers'[s].err \in {"session", "create"} =>
                 /\ servers'[s].pc = "done"
                 /\ removeBeforeExit' = removeBeforeExit
                 /\ removeBeforeNextSuite' = removeBeforeNextSuite]_vars

\* The Start of a first server has registered its dropks artefact, which the next
\* CleanupBeforeNextSuite has removed; the create of a single-mode server has
\* failed, with the stop, release and uninstall artefacts of that server in the
\* queues and no dropks artefact
C32_Witness ==
    \E s, t \in DOMAIN servers :
        /\ servers[t].admin = <<"session", "drop", "create">>
        /\ \E i \in DOMAIN removed : removed[i].a = Artefact("dropks", t)
        /\ servers[s].kind = "single" /\ servers[s].pc = "done"
        /\ servers[s].err = "create"
        /\ servers[s].admin = <<"session", "drop", "create_failed">>
        /\ removeBeforeExit = <<Artefact("stop", s)>>
        /\ removeBeforeNextSuite = <<Artefact("release", s), Artefact("uninstall", s)>>

(***************************************************************************)
(* The readiness poll of CQLServer.DoStart, tick by tick: the server       *)
(* process has been spawned and writes its log line by line, the harness   *)
(* reads the log through a descriptor of its own.                          *)
(***************************************************************************)
\* The lines the server writes before the model stops following its log
MaxLogLines == 3

\* START_TIMEOUT, in ticks of the poll (the code: 300 s, in ticks of 10 ms)
StartTimeout == 2

\* Fault variant of FindLogFilePattern: any line counts
FindLogFilePatternAnyLine(unread) == unread # <<>>

\* FindLogFilePattern on the lines the descriptor has not read yet: some line
\* matches "Scylla.*initialization completed" (such a line is a "marker", any
\* other line an "other")
FindLogFilePattern(unread) == \E i \in DOMAIN unread : unread[i] = "marker"

\* The lines a scan that begins now reads: from the offset of server.logFile to
\* the end of the file
Unread == SubSeq(logLines, offset + 1, Len(logLines))

\* `time.Now().Sub(start) > START_TIMEOUT`
TimedOut(t) == t > StartTimeout

\* cmd.Start() has returned nil; DoStart takes the start time and enters the loop
\* over time.Tick
InitPoll ==
    /\ HarnessIdle
    /\ StopIdle /\ TestIdle
    /\ ScriptIdle /\ DiffIdle /\ FindIdle /\ BarrierIdle
    /\ logLines = <<>> /\ offset = 0 /\ elapsed = 0 /\ ticked = FALSE
    /\ startpc = "wait"

\* The server process writes a line to its standard output, which is the log file
ServerWrites(l) ==
    /\ Len(logLines) < MaxLogLines
    /\ logLines' = Append(logLines, l)
    /\ UNCHANGED <<harnessVars, stopVars, testVars, barrierVars, scriptVars, diffVars, findVars,
                   offset, elapsed, ticked, startpc>>

\* Ten milliseconds pass: the ticker sends a tick, which waits in the channel.
\* Past the timeout only the fact that it is past is kept.
Clock ==
    /\ elapsed' = IF TimedOut(elapsed) THEN elapsed ELSE elapsed + 1
    /\ ticked' = TRUE
    /\ UNCHANGED <<harnessVars, stopVars, testVars, barrierVars, scriptVars, diffVars, findVars,
                   logLines, offset, startpc>>

\* DoStart: `for _ = range time.Tick(...)` receives a tick
PollTick ==
    /\ startpc = "wait" /\ ticked
    /\ ticked' = FALSE
    /\ startpc' = "scan"
    /\ UNCHANGED <<harnessVars, stopVars, testVars, barrierVars, scriptVars, diffVars, findVars,
                   logLines, offset, elapsed>>

\* DoStart: `if FindLogFilePattern(server.logFile, ...) { break }`, and DoStart
\* returns nil.  A scan that finds nothing has read the file to its end.
PollScan ==
    /\ startpc = "scan"
    /\ IF FindLogFilePattern(Unread)
       THEN /\ offset' = Len(logLines)
            /\ startpc' = "ready"
       ELSE /\ offset' = Len(logLines)
            /\ startpc' = "time"
    /\ UNCHANGED <<harnessVars, stopVars, testVars, barrierVars, scriptVars, diffVars, findVars,
                   logLines, elapsed, ticked>>

\* DoStart: `if time.Now().Sub(start) > START_TIMEOUT { return merry.Errorf(...) }`
PollTime ==
    /\ startpc = "time"
    /\ startpc' = IF TimedOut(elapsed) THEN "timeout" ELSE "wait"
    /\ UNCHANGED <<harnessVars, stopVars, testVars, barrierVars, scriptVars, diffVars, findVars,
                   logLines, offset, elapsed, ticked>>

\* CQLServer.Start: DoStart has returned nil,
\* `return server.CQLServerURI.Start(lane)`
Delegate ==
    /\ startpc = "ready"
    /\ startpc' = "ns"
    /\ UNCHANGED <<harnessVars, stopVars, testVars, barrierVars, scriptVars, diffVars, findVars,
                   logLines, offset, elapsed, ticked>>

\* The steps of the goroutine that runs Start
PollStep == PollTick \/ PollScan \/ PollTime \/ Delegate

NextPoll ==
    \/ \E l \in {"marker", "other"} : ServerWrites(l)
    \/ Clock
    \/ PollStep

SpecPoll == InitPoll /\ [][NextPoll]_vars

\* Time passes and the goroutine that runs Start is scheduled; nothing obliges the
\* server to write
FairPoll == SpecPoll /\ WF_vars(Clock) /\ WF_vars(PollStep)

\* The lines read through server.logFile so far hold the marker
MarkerObserved == \E i \in 1..offset : logLines[i] = "marker"

\* The two outcomes of the poll, and the delegation to CQLServerURI.Start
PollOutcomes ==
    /\ [](startpc \in {"ready", "ns"} => MarkerObserved)
    /\ [](startpc = "timeout" => TimedOut(elapsed) /\ ~MarkerObserved)
    /\ [][/\ startpc' = "ready" /\ startpc # "ready" =>
                startpc = "scan" /\ FindLogFilePattern(Unread)
          /\ startpc' = "timeout" /\ startpc # "timeout" =>
                startpc = "time" /\ TimedOut(elapsed) /\ ~MarkerObserved
          /\ startpc' = "ns" /\ startpc # "ns" => startpc = "ready"
          /\ startpc \in {"timeout", "ns"} => startpc' = startpc]_vars

C35_KillBeforeNamespaceDrop ==
    [][Len(removed') > Len(removed) =>
          LET a == removed'[Len(removed')].a IN
          (a.kind = "dropks" /\ servers[a.srv].kind \in {"single", "node"}) =>
              /\ \E i \in DOMAIN removed : removed[i].a = Artefact("stop", a.srv)
              /\ servers[a.srv].proc = "dead"]_vars

\* C36: every stop artefact in the exit-scoped queue refers to a process that was
\* spawned: once cmd.Start() has been tried, the stop artefact of a server is in
\* the queue only if the process was spawned, and no exit-scoped cleanup runs the
\* shutdown on a process that does not exist.
C36_StopArtefactHasProcess ==
    /\ \A i \in DOMAIN removeBeforeExit :
          LET a == removeBeforeExit[i] IN
          (a.kind = "stop" /\ servers[a.srv].pc # "spawn") => servers[a.srv].proc # "none"
    /\ \A i \in DOMAIN removed :
          removed[i].a.kind = "stop" => servers[removed[i].a.srv].proc # "none"

(***************************************************************************)
(* The end of a run.                                                       *)
(***************************************************************************)
\* C37: without force, once a test has returned "fail" no further test is run in
\* the rest of the harness run, neither in the remaining modes of the suite nor in
\* a later suite.
C37_NoTestAfterFail ==
    [][(~force /\ WithResult("fail") # <<>>) => nRunTest' = nRunTest]_vars

\* C38: over a whole run Remove is invoked at most once on every registered
\* artefact, under every interleaving of the listener's CleanupBeforeExit with
\* main's CleanupBeforeNextSuite and CleanupBeforeExit: no process is shut down
\* twice.
C38_RemovedAtMostOnce ==
    \A i, j \in DOMAIN removed : removed[i].a = removed[j].a => i = j

\* C39: on every path on which Run returns, main runs CleanupBeforeExit before it
\* exits, and no server process the harness has spawned is alive once that
\* cleanup has returned and the harness exits.
C39_NoProcessLeftAtExit ==
    /\ [][/\ (pc = "ret" /\ pc' # pc) => pc' = "cbe"
          /\ (pc' = "exit" /\ pc' # pc) => pc = "cbe" /\ mi > Len(msnap)]_vars
    /\ [](pc = "exit" => \A s \in DOMAIN servers : servers[s].proc # "alive")

(***************************************************************************)
(* The barrier of CQLCluster.Start, statement by statement: the WaitGroup, *)
(* the status channel and the startOne goroutine of every node.  What a    *)
(* server.Start does is left out: it returns nil or an error.              *)
(***************************************************************************)
\* CQLCluster.Start has done wg.Add, has made the channel and has started one
\* startOne per node; it is at wg.Wait()
InitBarrier ==
    /\ HarnessIdle
    /\ StopIdle /\ TestIdle
    /\ ScriptIdle /\ DiffIdle /\ FindIdle /\ PollIdle
    /\ tasks = [i \in 1..ClusterSize |-> "run"]
    /\ nerr = {}
    /\ wg = ClusterSize
    /\ chn = <<>>
    /\ bpc = "wait" /\ bres = 0

\* startOne: `err := server.Start(lane)` returns, nil (ok) or an error
StartReturns(i, ok) ==
    /\ tasks[i] = "run"
    /\ tasks' = [tasks EXCEPT ![i] = IF ok THEN "defer" ELSE "err"]
    /\ nerr' = IF ok THEN nerr ELSE nerr \cup {i}
    /\ UNCHANGED <<harnessVars, stopVars, testVars, scriptVars, diffVars, findVars, pollVars,
                   wg, chn, bpc, bres>>

\* startOne: `status <- err`, which blocks while the channel is full
SendStatus(i) ==
    /\ tasks[i] = "err"
    /\ Len(chn) < StatusCapacity
    /\ chn' = Append(chn, i)
    /\ tasks' = [tasks EXCEPT ![i] = "defer"]
    /\ UNCHANGED <<harnessVars, stopVars, testVars, scriptVars, diffVars, findVars, pollVars,
                   nerr, wg, bpc, bres>>

\* startOne returns: the deferred `wg.Done()`
WgDone(i) ==
    /\ tasks[i] = "defer"
    /\ wg' = wg - 1
    /\ tasks' = [tasks EXCEPT ![i] = "done"]
    /\ UNCHANGED <<harnessVars, stopVars, testVars, scriptVars, diffVars, findVars, pollVars,
                   nerr, chn, bpc, bres>>

\* CQLCluster.Start: `wg.Wait()` returns when the counter is zero
WgWait ==
    /\ bpc = "wait" /\ wg = 0
    /\ bpc' = "select"
    /\ UNCHANGED <<harnessVars, stopVars, testVars, scriptVars, diffVars, findVars, pollVars,
                   tasks, nerr, wg, chn, bres>>

\* CQLCluster.Start: `select { case err := <-status: return err; default: return nil }`
SelectStatus ==
    /\ bpc = "select"
    /\ IF chn # <<>>
       THEN bres' = Head(chn) /\ chn' = Tail(chn)
       ELSE bres' = 0 /\ chn' = chn
    /\ bpc' = "returned"
    /\ UNCHANGED <<harnessVars, stopVars, testVars, scriptVars, diffVars, findVars, pollVars,
                   tasks, nerr, wg>>

\* The steps of the startOne of node i
StartOne(i) ==
    \/ \E ok \in BOOLEAN : StartReturns(i, ok)
    \/ SendStatus(i)
    \/ WgDone(i)

NextBarrier ==
    \/ \E i \in 1..ClusterSize : StartOne(i)
    \/ WgWait
    \/ SelectStatus

SpecBarrier == InitBarrier /\ [][NextBarrier]_vars

\* Every server.Start terminates and every goroutine is scheduled
FairBarrier ==
    /\ SpecBarrier
    /\ \A i \in 1..ClusterSize : WF_vars(StartOne(i))
    /\ WF_vars(WgWait) /\ WF_vars(SelectStatus)

\* C40: CQLCluster.Start cannot deadlock: the status channel never holds more
\* errors than it has room for and a node that has an error to report can
\* always send it, however many nodes fail; every node start terminating, the
\* barrier is eventually passed and Start returns, a nil exactly if no node has
\* failed.
C40_ClusterStartReturns ==
    /\ [](Len(chn) <= StatusCapacity)
    /\ [](\A i \in 1..ClusterSize : tasks[i] = "err" => ENABLED SendStatus(i))
    /\ [](bpc \in {"select", "returned"} => \A i \in 1..ClusterSize : tasks[i] = "done")
    /\ [](bpc = "returned" => (bres = 0 <=> nerr = {}) /\ (bres # 0 => bres \in nerr))
    /\ <>(bpc = "returned")

\* Every node has failed and has sent its error, and Start has returned the error
\* of node 2, the first to send
C40_Witness ==
    /\ bpc = "returned"
    /\ nerr = 1..ClusterSize
    /\ bres = 2
    /\ Len(chn) = ClusterSize - 1
=============================================================================
